---- MODULE Spec2Model ----
(***************************************************************************)
(* Model of the full-abi dispatch layer (src/src/lib/full-abi/fullAbi.ts)  *)
(* and of the signature grammars it dispatches on (regex.ts, kept in       *)
(* src/src/lib/full-abi/fromAbi.test.ts lines 93-116).                     *)
(*                                                                         *)
(* A signature string is a sequence of lexemes: the keywords, identifiers  *)
(* and type names are word lexemes (letters only, so a run of adjacent     *)
(* word lexemes is one identifier of the character-level grammar), and     *)
(* "(", ")", "," and " " are the punctuation the grammars look at.         *)
(* A byte string is a sequence of chunks, each with its size in bytes.     *)
(***************************************************************************)
EXTENDS Integers, Sequences, FiniteSets, TLC

\* Longest parameter list of a generated signature.
MaxParams == 2

\* Longest argument list handed to encode.
MaxArgs == 3

SP == " "
LP == "("
RP == ")"
COMMA == ","

Keywords == {"function", "event", "error", "constructor", "returns", "indexed"}
Idents == {"foo", "a", "b", "arg1"}
TypeWords == {"uint", "int", "uint256", "int256", "address"}
WordTokens == Keywords \cup Idents \cup TypeWords

IsWord(t) == t \in WordTokens

\* s without its first n lexemes
Drop(s, n) == SubSeq(s, n + 1, Len(s))

\* Last index of the maximal run of word lexemes starting at i (i-1: no run):
\* the text [a-zA-Z$_][a-zA-Z0-9$_]* matches at i.
NameEnd(s, i) ==
    CHOOSE k \in (i - 1)..Len(s) :
        /\ \A m \in i..k : IsWord(s[m])
        /\ (k = Len(s) \/ ~IsWord(s[k + 1]))

(***************************************************************************)
(* The grammars of regex.ts.                                               *)
(***************************************************************************)

\* /^\(.+?\).*?$/
isTupleRegex(s) ==
    /\ Len(s) >= 3
    /\ s[1] = LP
    /\ \E j \in 3..Len(s) : s[j] = RP

\* /^<kw> (?<name>[a-zA-Z$_][a-zA-Z0-9$_]*)\((?<parameters>.*?)\)$/
NamedSignatureRegex(kw, s) ==
    /\ Len(s) >= 5
    /\ s[1] = kw
    /\ s[2] = SP
    /\ LET e == NameEnd(s, 3)
       IN  /\ e >= 3
           /\ e + 2 <= Len(s)
           /\ s[e + 1] = LP
           /\ s[Len(s)] = RP

errorSignatureRegex(s) == NamedSignatureRegex("error", s)

eventSignatureRegex(s) == NamedSignatureRegex("event", s)

ScopeWords == {"external", "public"}
MutabilityWords == {"pure", "view", "nonpayable", "payable"}

\* (?: returns\s?\((?<returns>.*?)\))?$
ReturnsTail(t) ==
    \/ t = << >>
    \/ /\ Len(t) >= 4
       /\ t[1] = SP
       /\ t[2] = "returns"
       /\ t[Len(t)] = RP
       /\ \/ t[3] = LP
          \/ t[3] = SP /\ Len(t) >= 5 /\ t[4] = LP

\* (?: (?<scope>external|public{1}))?(?: (?<stateMutability>pure|view|nonpayable|payable{1}))?(?: returns ...)?$
FunctionTail(t) ==
    \E a \in {0, 2}, b \in {0, 2} :
        /\ Len(t) >= a + b
        /\ a = 2 => (t[1] = SP /\ t[2] \in ScopeWords)
        /\ b = 2 => (t[a + 1] = SP /\ t[a + 2] \in MutabilityWords)
        /\ ReturnsTail(Drop(t, a + b))

\* The closing parentheses after which the rest of the function grammar matches.
FunctionCloses(s) ==
    IF Len(s) >= 5 /\ s[1] = "function" /\ s[2] = SP
    THEN LET e == NameEnd(s, 3)
         IN  IF e >= 3 /\ e + 2 <= Len(s) /\ s[e + 1] = LP
             THEN {j \in (e + 2)..Len(s) : s[j] = RP /\ FunctionTail(Drop(s, j))}
             ELSE {}
    ELSE {}

\* /^function (?<name>...)\((?<parameters>.*?)\)(?: scope)?(?: mutability)?(?: returns\s?\((?<returns>.*?)\))?$/
functionSignatureRegex(s) == FunctionCloses(s) # {}

\* (?:\s(?<stateMutability>payable{1}))?$
ConstructorTail(t) == t = << >> \/ t = <<SP, "payable">>

ConstructorCloses(s) ==
    IF Len(s) >= 3 /\ s[1] = "constructor" /\ s[2] = LP
    THEN {j \in 3..Len(s) : s[j] = RP /\ ConstructorTail(Drop(s, j))}
    ELSE {}

\* /^constructor\((?<parameters>.*?)\)(?:\s(?<stateMutability>payable{1}))?$/
constructorSignatureRegex(s) == ConstructorCloses(s) # {}

Min(S) == CHOOSE x \in S : \A y \in S : x <= y

(***************************************************************************)
(* Signature parsing: the parser behind AbiFunction.from, AbiEvent.from,   *)
(* AbiError.from, AbiConstructor.from and AbiParameters.from, as far as    *)
(* the generated signatures exercise it (no arrays, no nested tuples).     *)
(***************************************************************************)

ModifierWords == {"calldata", "indexed", "memory", "storage"}
ProtectedKeywords == {"function", "event", "error", "returns", "indexed"}
SolidityTypes == {"uint256", "int256", "address"}

NoParam == [name |-> << >>, type |-> "", indexed |-> FALSE]

RECURSIVE TrimLeft(_)
TrimLeft(s) == IF s # << >> /\ Head(s) = SP THEN TrimLeft(Tail(s)) ELSE s

RECURSIVE TrimRight(_)
TrimRight(s) ==
    IF s # << >> /\ s[Len(s)] = SP THEN TrimRight(SubSeq(s, 1, Len(s) - 1)) ELSE s

Trim(s) == TrimRight(TrimLeft(s))

\* Splits a parameter list at the commas of depth 0; an unbalanced rest fails.
RECURSIVE SplitFrom(_, _, _, _, _)
SplitFrom(p, i, cur, depth, acc) ==
    IF i > Len(p)
    THEN IF cur = << >> THEN [ok |-> TRUE, entries |-> acc]
         ELSE IF depth # 0 THEN [ok |-> FALSE, entries |-> << >>]
         ELSE [ok |-> TRUE, entries |-> Append(acc, Trim(cur))]
    ELSE IF p[i] = COMMA /\ depth = 0
         THEN SplitFrom(p, i + 1, << >>, 0, Append(acc, Trim(cur)))
    ELSE IF p[i] = LP THEN SplitFrom(p, i + 1, Append(cur, p[i]), depth + 1, acc)
    ELSE IF p[i] = RP THEN SplitFrom(p, i + 1, Append(cur, p[i]), depth - 1, acc)
    ELSE SplitFrom(p, i + 1, Append(cur, p[i]), depth, acc)

splitParameters(p) == SplitFrom(p, 1, << >>, 0, << >>)

\* What may follow a type: (?:\s(?<modifier>...))?(?:\s(?<name>...))?$
ParamRest(t) ==
    IF t = << >> THEN [ok |-> TRUE, modifier |-> "", name |-> << >>]
    ELSE IF Len(t) = 2 /\ t[1] = SP /\ t[2] \in ModifierWords
    THEN [ok |-> TRUE, modifier |-> t[2], name |-> << >>]
    ELSE IF Len(t) >= 2 /\ t[1] = SP /\ NameEnd(t, 2) = Len(t)
    THEN [ok |-> TRUE, modifier |-> "", name |-> Drop(t, 1)]
    ELSE IF /\ Len(t) >= 4 /\ t[1] = SP /\ t[2] \in ModifierWords /\ t[3] = SP
            /\ NameEnd(t, 4) = Len(t)
    THEN [ok |-> TRUE, modifier |-> t[2], name |-> Drop(t, 3)]
    ELSE [ok |-> FALSE, modifier |-> "", name |-> << >>]

\* ResolveType without the writing out of uint and int.
ResolveType_Identity(t) == t

\* uint and int are written out; any other type must be a Solidity type.
ResolveType(t) ==
    IF t = "uint" THEN "uint256"
    ELSE IF t = "int" THEN "int256"
    ELSE t

\* One parameter that is no tuple; modifiers: the modifiers its place allows.
parseAbiParameter(entry, modifiers) ==
    LET e    == NameEnd(entry, 1)
        rest == ParamRest(Drop(entry, e))
        type == ResolveType(entry[1])
    IN  IF /\ e = 1
           /\ rest.ok
           /\ \A m \in 1..Len(rest.name) : rest.name[m] \notin ProtectedKeywords \/ Len(rest.name) > 1
           /\ type \in SolidityTypes
           /\ (rest.modifier = "" \/ rest.modifier \in modifiers)
        THEN [ok |-> TRUE,
              p |-> [name |-> rest.name, type |-> type,
                     indexed |-> (rest.modifier = "indexed")]]
        ELSE [ok |-> FALSE, p |-> NoParam]

\* A parameter list: every entry must parse.
parseParameters(p, modifiers) ==
    LET sp == splitParameters(p)
    IN  IF sp.ok /\ \A i \in 1..Len(sp.entries) :
                       parseAbiParameter(sp.entries[i], modifiers).ok
        THEN [ok |-> TRUE,
              inputs |-> [i \in 1..Len(sp.entries) |->
                             parseAbiParameter(sp.entries[i], modifiers).p]]
        ELSE [ok |-> FALSE, inputs |-> << >>]

(***************************************************************************)
(* ABI items. kind is the item's type; a tuple parameter has kind "tuple"  *)
(* and its components in inputs. kind "throw" stands for a thrown error.   *)
(***************************************************************************)

Item(kind, name, inputs, outputs) ==
    [kind |-> kind, name |-> name, inputs |-> inputs, outputs |-> outputs]

Thrown == Item("throw", << >>, << >>, << >>)

NoItem == Item("none", << >>, << >>, << >>)

parseFunctionSignature(s) ==
    LET e      == NameEnd(s, 3)
        j      == Min(FunctionCloses(s))
        ins    == parseParameters(SubSeq(s, e + 2, j - 1), {"calldata", "memory", "storage"})
        tail   == Drop(s, j)
        k      == IF \E q \in 1..Len(tail) : tail[q] = LP
                  THEN Min({q \in 1..Len(tail) : tail[q] = LP}) ELSE 0
        outs   == IF k = 0 THEN [ok |-> TRUE, inputs |-> << >>]
                  ELSE parseParameters(SubSeq(tail, k + 1, Len(tail) - 1),
                                       {"calldata", "memory", "storage"})
    IN  IF ins.ok /\ outs.ok
        THEN Item("function", SubSeq(s, 3, e), ins.inputs, outs.inputs)
        ELSE Thrown

parseNamedSignature(kind, s, modifiers) ==
    LET e   == NameEnd(s, 3)
        ins == parseParameters(SubSeq(s, e + 2, Len(s) - 1), modifiers)
    IN  IF ins.ok THEN Item(kind, SubSeq(s, 3, e), ins.inputs, << >>) ELSE Thrown

parseConstructorSignature(s) ==
    LET j   == Min(ConstructorCloses(s))
        ins == parseParameters(SubSeq(s, 3, j - 1), {})
    IN  IF ins.ok THEN Item("constructor", << >>, ins.inputs, << >>) ELSE Thrown

\* AbiItem.from on a string, which AbiFunction.from, AbiEvent.from, AbiError.from
\* and AbiConstructor.from all run: the first grammar the string matches.
AbiItemFrom(s) ==
    IF functionSignatureRegex(s) THEN parseFunctionSignature(s)
    ELSE IF eventSignatureRegex(s) THEN parseNamedSignature("event", s, {"indexed"})
    ELSE IF errorSignatureRegex(s) THEN parseNamedSignature("error", s, {})
    ELSE IF constructorSignatureRegex(s) THEN parseConstructorSignature(s)
    ELSE Thrown

\* The closing parentheses after which a tuple parameter may end.
TupleCloses(entry) ==
    {j \in 3..Len(entry) : entry[j] = RP /\ ParamRest(Drop(entry, j)).ok}

\* AbiParameters.from(s)[0] for a string s.
AbiParametersFromFirst(s) ==
    LET sp == splitParameters(s)
    IN  IF ~sp.ok \/ sp.entries = << >> THEN Thrown
        ELSE IF \E i \in 1..Len(sp.entries) :
                   /\ ~(isTupleRegex(sp.entries[i]) /\ TupleCloses(sp.entries[i]) # {})
                   /\ ~parseAbiParameter(sp.entries[i], ModifierWords).ok
        THEN Thrown
        ELSE LET first == sp.entries[1]
             IN  IF isTupleRegex(first) /\ TupleCloses(first) # {}
                 THEN LET j    == Min(TupleCloses(first))
                          rest == ParamRest(Drop(first, j))
                          comp == parseParameters(SubSeq(first, 2, j - 1), {})
                      IN  IF comp.ok /\ (Len(rest.name) # 1 \/ rest.name[1] \notin ProtectedKeywords)
                          THEN Item("tuple", rest.name, comp.inputs, << >>)
                          ELSE Thrown
                 ELSE Item("parameter", parseAbiParameter(first, ModifierWords).p.name,
                           << >>, << >>)

(***************************************************************************)
(* fullAbi.from and fullAbi.getParameter.                                  *)
(***************************************************************************)

\* The prefix of the fallback without its space.
FunctionPrefix_NoSpace == <<"function">>

FunctionPrefix == <<"function", SP>>

\* from with the fallback before the constructor grammar is tried.
from_NoConstructor(abiItem) ==
    IF isTupleRegex(abiItem) THEN AbiParametersFromFirst(abiItem)
    ELSE IF errorSignatureRegex(abiItem) THEN AbiItemFrom(abiItem)
    ELSE IF eventSignatureRegex(abiItem) THEN AbiItemFrom(abiItem)
    ELSE IF functionSignatureRegex(abiItem) THEN AbiItemFrom(abiItem)
    ELSE AbiItemFrom(FunctionPrefix \o abiItem)

\* from with a failure of the fallback turned into an empty tuple item.
from_SwallowFallback(abiItem) ==
    IF isTupleRegex(abiItem) THEN AbiParametersFromFirst(abiItem)
    ELSE IF errorSignatureRegex(abiItem) THEN AbiItemFrom(abiItem)
    ELSE IF eventSignatureRegex(abiItem) THEN AbiItemFrom(abiItem)
    ELSE IF functionSignatureRegex(abiItem) THEN AbiItemFrom(abiItem)
    ELSE IF constructorSignatureRegex(abiItem) THEN AbiItemFrom(abiItem)
    ELSE IF AbiItemFrom(FunctionPrefix \o abiItem) = Thrown
    THEN Item("tuple", << >>, << >>, << >>)
    ELSE AbiItemFrom(FunctionPrefix \o abiItem)

from(abiItem) ==
    IF isTupleRegex(abiItem) THEN AbiParametersFromFirst(abiItem)
    ELSE IF errorSignatureRegex(abiItem) THEN AbiItemFrom(abiItem)
    ELSE IF eventSignatureRegex(abiItem) THEN AbiItemFrom(abiItem)
    ELSE IF functionSignatureRegex(abiItem) THEN AbiItemFrom(abiItem)
    ELSE IF constructorSignatureRegex(abiItem) THEN AbiItemFrom(abiItem)
    ELSE AbiItemFrom(FunctionPrefix \o abiItem)

\* getParameter without the branch for events.
getParameter_NoEvent(abiItem) ==
    IF abiItem.kind = "function" THEN abiItem.inputs
    ELSE IF abiItem.kind = "error" THEN abiItem.inputs
    ELSE IF abiItem.kind = "constructor" THEN abiItem.inputs
    ELSE IF abiItem.kind = "tuple" /\ Len(abiItem.inputs) > 0 THEN abiItem.inputs
    ELSE << >>

getParameter(abiItem) ==
    IF abiItem.kind = "function" THEN abiItem.inputs
    ELSE IF abiItem.kind = "event" THEN abiItem.inputs
    ELSE IF abiItem.kind = "error" THEN abiItem.inputs
    ELSE IF abiItem.kind = "constructor" THEN abiItem.inputs
    ELSE IF abiItem.kind = "tuple" /\ Len(abiItem.inputs) > 0 THEN abiItem.inputs
    ELSE << >>

(***************************************************************************)
(* Values and byte strings.                                                *)
(* An argument is a string: a decimal numeral, or "0x" and hex digits (an  *)
(* address written in lower case, abbreviated to its low digits).          *)
(* A decoded value is a bigint or an address string.                       *)
(* A byte string is a sequence of chunks; a chunk is a selector (4 bytes,  *)
(* the hash of a signature), a word or packed value, a topic hash, or      *)
(* contract bytecode.                                                      *)
(***************************************************************************)

DecString(digits) == [syn |-> "dec", digits |-> digits]
HexString(digits) == [syn |-> "hex", digits |-> digits]

ArgStrings == {DecString(<<0, 7>>), HexString(<<0, 10>>)}

Base(str) == IF str.syn = "dec" THEN 10 ELSE 16

\* BigInt(str)
RECURSIVE Numeral(_, _)
Numeral(digits, base) ==
    IF digits = << >> THEN 0
    ELSE Numeral(SubSeq(digits, 1, Len(digits) - 1), base) * base + digits[Len(digits)]

ToBigInt(str) == Numeral(str.digits, Base(str))

BigIntValue(n) == [ty |-> "bigint", n |-> n]
AddressValue(n) == [ty |-> "address", n |-> n]
Undefined == [ty |-> "undefined", n |-> 0]
Garbage == [ty |-> "garbage", n |-> 0]

NoSig == [name |-> << >>, types |-> << >>]

Chunk(size, tag, n, sig) == [size |-> size, tag |-> tag, n |-> n, sig |-> sig]

Word(n) == Chunk(32, "num", n, NoSig)

\* name(type1,type2,...) of an item
Signature(abiItem) ==
    [name  |-> abiItem.name,
     types |-> [i \in 1..Len(abiItem.inputs) |-> abiItem.inputs[i].type]]

\* first 4 bytes of the hash of the signature
getSelector(abiItem) == Chunk(4, "hash", 0, Signature(abiItem))

\* the 32-byte hash of the signature
getSignatureHash(abiItem) == Chunk(32, "hash", 0, Signature(abiItem))

RECURSIVE Size(_)
Size(bytes) == IF bytes = << >> THEN 0 ELSE Head(bytes).size + Size(Tail(bytes))

\* Results of encode and decode. res "throw" stands for a thrown error.
HexResult(bytes) == [res |-> "hex", bytes |-> bytes, topics |-> << >>, msg |-> ""]
TopicsResult(topics) == [res |-> "topics", bytes |-> << >>, topics |-> topics, msg |-> ""]
NullResult == [res |-> "null", bytes |-> << >>, topics |-> << >>, msg |-> ""]
EncodeThrow(msg) == [res |-> "throw", bytes |-> << >>, topics |-> << >>, msg |-> msg]
NoResult == [res |-> "none", bytes |-> << >>, topics |-> << >>, msg |-> ""]

\* The fields of the object a result of encode is: AbiEvent.encode returns an
\* object with topics alone; the other results are no objects.
ResultFields(result) == IF result.res = "topics" THEN {"topics"} ELSE {}

ListValue(vals) == [res |-> "list", vals |-> vals, keys |-> << >>, msg |-> ""]
ObjectValue(keys, vals) == [res |-> "object", vals |-> vals, keys |-> keys, msg |-> ""]
UndefinedValue == [res |-> "undefined", vals |-> << >>, keys |-> << >>, msg |-> ""]
DecodeThrow(msg) == [res |-> "throw", vals |-> << >>, keys |-> << >>, msg |-> msg]
NoValue == [res |-> "none", vals |-> << >>, keys |-> << >>, msg |-> ""]

(***************************************************************************)
(* AbiParameters.encode, encodePacked and decode for the static types.     *)
(***************************************************************************)

\* Can the string be encoded as the type: an address needs the 0x form; an
\* integer is read by BigInt, which takes both forms.
Encodable(type, str) == type = "address" => str.syn = "hex"

\* Bytes of a packed value: an address takes 20, uint256 and int256 take 32.
PackedSize(type) == IF type = "address" THEN 20 ELSE 32

AbiParametersEncode(parameters, values) ==
    IF Len(parameters) # Len(values) THEN EncodeThrow("LengthMismatchError")
    ELSE IF \E i \in 1..Len(values) : ~Encodable(parameters[i].type, values[i])
    THEN EncodeThrow("InvalidValue")
    ELSE HexResult([i \in 1..Len(values) |-> Word(ToBigInt(values[i]))])

AbiParametersEncodePacked(types, values) ==
    IF Len(types) # Len(values) THEN EncodeThrow("LengthMismatchError")
    ELSE IF \E i \in 1..Len(values) : ~Encodable(types[i], values[i])
    THEN EncodeThrow("InvalidValue")
    ELSE HexResult([i \in 1..Len(values) |->
                       Chunk(PackedSize(types[i]), "num", ToBigInt(values[i]), NoSig)])

\* The value a 32-byte word decodes to.
DecodeWord(type, chunk) ==
    IF chunk.tag # "num" THEN Garbage
    ELSE IF type = "address" THEN AddressValue(chunk.n)
    ELSE BigIntValue(chunk.n)

\* Is the i-th word of the byte string one chunk of its own?
Aligned(bytes, i) == i <= Len(bytes) /\ \A k \in 1..i : bytes[k].size = 32

AbiParametersDecode(parameters, bytes) ==
    IF Size(bytes) = 0 /\ Len(parameters) > 0 THEN DecodeThrow("ZeroDataError")
    ELSE IF Size(bytes) > 0 /\ Size(bytes) < 32 THEN DecodeThrow("DataSizeTooSmallError")
    ELSE IF Size(bytes) < 32 * Len(parameters) THEN DecodeThrow("PositionOutOfBoundsError")
    ELSE ListValue([i \in 1..Len(parameters) |->
                       IF Aligned(bytes, i) THEN DecodeWord(parameters[i].type, bytes[i])
                       ELSE Garbage])

\* Hex.slice(data, 4): what follows the first 4 bytes (called with Size >= 4).
SliceSelector(bytes) ==
    IF Head(bytes).size = 4 THEN Tail(bytes)
    ELSE IF Head(bytes).size > 4
    THEN <<Chunk(Head(bytes).size - 4, "rest", 0, NoSig)>> \o Tail(bytes)
    ELSE <<Chunk(Size(bytes) - 4, "rest", 0, NoSig)>>

(***************************************************************************)
(* The item codecs fullAbi.encode and fullAbi.decode delegate to.          *)
(***************************************************************************)

\* AbiFunction.encodeData and AbiError.encode: selector, then the arguments.
EncodeWithSelector(abiItem, args) ==
    LET data == AbiParametersEncode(abiItem.inputs, args)
    IN  IF data.res = "throw" THEN data
        ELSE HexResult(<<getSelector(abiItem)>> \o data.bytes)

\* AbiFunction.decodeData
AbiFunctionDecodeData(abiItem, data) ==
    IF Size(data) < 4 THEN DecodeThrow("InvalidSelectorSizeError")
    ELSE IF Len(abiItem.inputs) = 0 THEN UndefinedValue
    ELSE IF Size(data) <= 4 THEN UndefinedValue
    ELSE AbiParametersDecode(abiItem.inputs, SliceSelector(data))

\* AbiError.decode: a single decoded value is returned bare, res "single".
AbiErrorDecode(abiItem, data) ==
    IF Size(data) < 4 THEN DecodeThrow("InvalidSelectorSizeError")
    ELSE IF Len(abiItem.inputs) = 0 THEN UndefinedValue
    ELSE LET values == AbiParametersDecode(abiItem.inputs, SliceSelector(data))
         IN  IF values.res = "list" /\ Len(values.vals) = 1
             THEN [values EXCEPT !.res = "single"]
             ELSE values

Indices(inputs, indexed) ==
    {i \in 1..Len(inputs) : inputs[i].indexed = indexed}

\* The k-th smallest element of a set of numbers
RECURSIVE Nth(_, _)
Nth(S, k) == IF k = 1 THEN Min(S) ELSE Nth(S \ {Min(S)}, k - 1)

\* inputs.filter(indexed) or inputs.filter(not indexed), in declaration order
Filtered(inputs, indexed) ==
    [k \in 1..Cardinality(Indices(inputs, indexed)) |->
        inputs[Nth(Indices(inputs, indexed), k)]]

NullTopic == Chunk(0, "null", 0, NoSig)

\* AbiEvent.encode: the signature hash, then one topic per indexed input, taken
\* from the arguments by position among the indexed inputs; no data is returned.
AbiEventEncode(abiItem, args) ==
    LET indexedInputs == Filtered(abiItem.inputs, TRUE)
        given(i)  == i <= Len(args)
        topic(i)  == AbiParametersEncode(<<indexedInputs[i]>>, <<args[i]>>)
    IN  IF Len(args) = 0 THEN TopicsResult(<<getSignatureHash(abiItem)>>)
        ELSE IF \E i \in 1..Len(indexedInputs) : given(i) /\ topic(i).res = "throw"
        THEN EncodeThrow("InvalidValue")
        ELSE TopicsResult(<<getSignatureHash(abiItem)>> \o
                 [i \in 1..Len(indexedInputs) |->
                     IF given(i) THEN topic(i).bytes[1] ELSE NullTopic])

\* The key a decoded event argument is stored under: its name, or its position.
ArgKey(inputs, i) == IF inputs[i].name # << >> THEN inputs[i].name ELSE <<ToString(i - 1)>>

\* AbiEvent.decode that reads the indexed values from topics[0] onwards.
AbiEventDecode_FromTopic0(abiItem, hasData, data, topics) ==
    LET inputs     == abiItem.inputs
        isUnnamed  == \A i \in 1..Len(inputs) : inputs[i].name = << >>
        idx        == Indices(inputs, TRUE)
        nonIdx     == Indices(inputs, FALSE)
        nIdx       == Cardinality(idx)
        nNon       == Cardinality(nonIdx)
        argTopics  == topics
        topicVal(k) == IF argTopics[k].size = 32
                       THEN DecodeWord(inputs[Nth(idx, k)].type, argTopics[k])
                       ELSE Garbage
        decoded    == AbiParametersDecode(Filtered(inputs, FALSE), data)
        lastIdx    == IF idx = {} THEN 0 ELSE Nth(idx, nIdx)
        \* the array args after the indexed values were stored by position
        sparse     == [i \in 1..lastIdx |->
                          IF i \in idx
                          THEN topicVal(CHOOSE k \in 1..nIdx : Nth(idx, k) = i)
                          ELSE Undefined]
    IN  IF topics = << >> \/ Head(topics) # getSignatureHash(abiItem)
        THEN DecodeThrow("SelectorTopicMismatchError")
        ELSE IF \E k \in 1..nIdx : k > Len(argTopics) \/ argTopics[k].tag = "null"
        THEN DecodeThrow("TopicsMismatchError")
        ELSE IF nNon > 0 /\ (~hasData \/ Size(data) = 0)
        THEN DecodeThrow("DataMismatchError")
        ELSE IF nNon > 0 /\ decoded.res = "throw"
        THEN DecodeThrow("DataMismatchError")
        ELSE IF Len(inputs) = 0 THEN UndefinedValue
        ELSE IF isUnnamed
        THEN ListValue(sparse \o (IF nNon > 0 THEN decoded.vals ELSE << >>))
        ELSE ObjectValue(
                 [k \in 1..Len(inputs) |->
                     IF k <= nIdx THEN ArgKey(inputs, Nth(idx, k))
                     ELSE ArgKey(inputs, Nth(nonIdx, k - nIdx))],
                 [k \in 1..Len(inputs) |->
                     IF k <= nIdx THEN topicVal(k) ELSE decoded.vals[k - nIdx]])

\* AbiEvent.decode on a log {data, topics}, topics present.
AbiEventDecode(abiItem, hasData, data, topics) ==
    LET inputs     == abiItem.inputs
        isUnnamed  == \A i \in 1..Len(inputs) : inputs[i].name = << >>
        idx        == Indices(inputs, TRUE)
        nonIdx     == Indices(inputs, FALSE)
        nIdx       == Cardinality(idx)
        nNon       == Cardinality(nonIdx)
        argTopics  == Tail(topics)
        topicVal(k) == IF argTopics[k].size = 32
                       THEN DecodeWord(inputs[Nth(idx, k)].type, argTopics[k])
                       ELSE Garbage
        decoded    == AbiParametersDecode(Filtered(inputs, FALSE), data)
        lastIdx    == IF idx = {} THEN 0 ELSE Nth(idx, nIdx)
        \* the array args after the indexed values were stored by position
        sparse     == [i \in 1..lastIdx |->
                          IF i \in idx
                          THEN topicVal(CHOOSE k \in 1..nIdx : Nth(idx, k) = i)
                          ELSE Undefined]
    IN  IF topics = << >> \/ Head(topics) # getSignatureHash(abiItem)
        THEN DecodeThrow("SelectorTopicMismatchError")
        ELSE IF \E k \in 1..nIdx : k > Len(argTopics) \/ argTopics[k].tag = "null"
        THEN DecodeThrow("TopicsMismatchError")
        ELSE IF nNon > 0 /\ (~hasData \/ Size(data) = 0)
        THEN DecodeThrow("DataMismatchError")
        ELSE IF nNon > 0 /\ decoded.res = "throw"
        THEN DecodeThrow("DataMismatchError")
        ELSE IF Len(inputs) = 0 THEN UndefinedValue
        ELSE IF isUnnamed
        THEN ListValue(sparse \o (IF nNon > 0 THEN decoded.vals ELSE << >>))
        ELSE ObjectValue(
                 [k \in 1..Len(inputs) |->
                     IF k <= nIdx THEN ArgKey(inputs, Nth(idx, k))
                     ELSE ArgKey(inputs, Nth(nonIdx, k - nIdx))],
                 [k \in 1..Len(inputs) |->
                     IF k <= nIdx THEN topicVal(k) ELSE decoded.vals[k - nIdx]])

\* AbiConstructor.encode: the bytecode, then the arguments when there are both
\* inputs and arguments.
AbiConstructorEncode(abiItem, args, bytecode) ==
    IF Len(abiItem.inputs) > 0 /\ Len(args) > 0
    THEN LET data == AbiParametersEncode(abiItem.inputs, args)
         IN  IF data.res = "throw" THEN data ELSE HexResult(bytecode \o data.bytes)
    ELSE HexResult(bytecode)

\* data.replace(bytecode, "0x"): the bytecode is cut from the front of data.
StripBytecode(data, bytecode) ==
    IF Len(data) >= Len(bytecode) /\ SubSeq(data, 1, Len(bytecode)) = bytecode
    THEN Drop(data, Len(bytecode))
    ELSE data

\* AbiConstructor.decode
AbiConstructorDecode(abiItem, bytecode, data) ==
    IF Len(abiItem.inputs) = 0 THEN UndefinedValue
    ELSE AbiParametersDecode(abiItem.inputs, StripBytecode(data, bytecode))

(***************************************************************************)
(* fullAbi.encode and fullAbi.decode.                                      *)
(***************************************************************************)

\* options: packed is "true", "false" or "absent"; bytecode may be absent.
Options(packed, hasBytecode, bytecode) ==
    [packed |-> packed, hasBytecode |-> hasBytecode, bytecode |-> bytecode]

DefaultOptions == Options("false", FALSE, << >>)

\* encode that packs a tuple unless options.packed is false.
encode_PackedUnlessFalse(abiItem, args, options) ==
    IF abiItem.kind = "function" THEN EncodeWithSelector(abiItem, args)
    ELSE IF abiItem.kind = "event" THEN AbiEventEncode(abiItem, args)
    ELSE IF abiItem.kind = "error" THEN EncodeWithSelector(abiItem, args)
    ELSE IF abiItem.kind = "constructor"
    THEN AbiConstructorEncode(abiItem, args,
             IF options.hasBytecode THEN options.bytecode ELSE << >>)
    ELSE IF abiItem.kind = "tuple" /\ Len(abiItem.inputs) > 0
    THEN IF options.packed # "false"
         THEN AbiParametersEncodePacked(
                  [i \in 1..Len(abiItem.inputs) |-> abiItem.inputs[i].type], args)
         ELSE AbiParametersEncode(abiItem.inputs, args)
    ELSE NullResult

\* encode that fails for a constructor when options.bytecode is absent.
encode_RequiresBytecode(abiItem, args, options) ==
    IF abiItem.kind = "function" THEN EncodeWithSelector(abiItem, args)
    ELSE IF abiItem.kind = "event" THEN AbiEventEncode(abiItem, args)
    ELSE IF abiItem.kind = "error" THEN EncodeWithSelector(abiItem, args)
    ELSE IF abiItem.kind = "constructor"
    THEN IF options.hasBytecode
         THEN AbiConstructorEncode(abiItem, args, options.bytecode)
         ELSE EncodeThrow("bytecode is required")
    ELSE IF abiItem.kind = "tuple" /\ Len(abiItem.inputs) > 0
    THEN IF options.packed = "true"
         THEN AbiParametersEncodePacked(
                  [i \in 1..Len(abiItem.inputs) |-> abiItem.inputs[i].type], args)
         ELSE AbiParametersEncode(abiItem.inputs, args)
    ELSE NullResult

encode(abiItem, args, options) ==
    IF abiItem.kind = "function" THEN EncodeWithSelector(abiItem, args)
    ELSE IF abiItem.kind = "event" THEN AbiEventEncode(abiItem, args)
    ELSE IF abiItem.kind = "error" THEN EncodeWithSelector(abiItem, args)
    ELSE IF abiItem.kind = "constructor"
    THEN AbiConstructorEncode(abiItem, args,
             IF options.hasBytecode THEN options.bytecode ELSE << >>)
    ELSE IF abiItem.kind = "tuple" /\ Len(abiItem.inputs) > 0
    THEN IF options.packed = "true"
         THEN AbiParametersEncodePacked(
                  [i \in 1..Len(abiItem.inputs) |-> abiItem.inputs[i].type], args)
         ELSE AbiParametersEncode(abiItem.inputs, args)
    ELSE NullResult

\* A payload: a flat byte string, or an object with some of data, topics, bytecode.
FlatPayload(bytes) ==
    [flat |-> TRUE, hasData |-> TRUE, bytes |-> bytes, hasTopics |-> FALSE,
     topics |-> << >>, hasBytecode |-> FALSE, bytecode |-> << >>]

ObjectPayload(hasData, bytes, hasTopics, topics, hasBytecode, bytecode) ==
    [flat |-> FALSE, hasData |-> hasData, bytes |-> bytes, hasTopics |-> hasTopics,
     topics |-> topics, hasBytecode |-> hasBytecode, bytecode |-> bytecode]

NoPayload == ObjectPayload(FALSE, << >>, FALSE, << >>, FALSE, << >>)

\* res ?? [] ; Array.isArray(res) ? res : [res]
AsArray(value) ==
    IF value.res = "undefined" THEN ListValue(<< >>)
    ELSE IF value.res = "single" THEN ListValue(value.vals)
    ELSE value

\* decode without the tests of the payload's shape: whatever data holds is
\* handed to the decoder of the kind, absent bytecode as the empty byte string.
decode_NoShapeTest(abiItem, data) ==
    IF abiItem.kind = "function"
    THEN AsArray(AbiFunctionDecodeData(abiItem, data.bytes))
    ELSE IF abiItem.kind = "event"
    THEN IF data.flat \/ ~data.hasTopics THEN DecodeThrow("TypeError")
         ELSE AbiEventDecode(abiItem, data.hasData, data.bytes, data.topics)
    ELSE IF abiItem.kind = "error"
    THEN AsArray(AbiErrorDecode(abiItem, data.bytes))
    ELSE IF abiItem.kind = "constructor"
    THEN AsArray(AbiConstructorDecode(abiItem,
                     IF data.hasBytecode THEN data.bytecode ELSE << >>,
                     IF data.hasData THEN data.bytes ELSE << >>))
    ELSE IF abiItem.kind = "tuple" /\ Len(abiItem.inputs) > 0
    THEN AsArray(AbiParametersDecode(abiItem.inputs, data.bytes))
    ELSE ListValue(<< >>)

decode(abiItem, data) ==
    IF abiItem.kind = "function"
    THEN IF ~data.flat
         THEN DecodeThrow("Function decoding requires topics and data object")
         ELSE AsArray(AbiFunctionDecodeData(abiItem, data.bytes))
    ELSE IF abiItem.kind = "event"
    THEN IF data.flat
         THEN DecodeThrow("Event decoding requires topics and data object")
         ELSE IF ~data.hasTopics THEN DecodeThrow("TypeError")
         ELSE AbiEventDecode(abiItem, data.hasData, data.bytes, data.topics)
    ELSE IF abiItem.kind = "error"
    THEN IF ~data.flat
         THEN DecodeThrow("Error decoding requires topics and data object")
         ELSE AsArray(AbiErrorDecode(abiItem, data.bytes))
    ELSE IF abiItem.kind = "constructor"
    THEN IF data.flat \/ ~data.hasBytecode
         THEN DecodeThrow("Constructor decoding requires { bytecode, data } object")
         ELSE AsArray(AbiConstructorDecode(abiItem, data.bytecode,
                          IF data.hasData THEN data.bytes ELSE << >>))
    ELSE IF abiItem.kind = "tuple" /\ Len(abiItem.inputs) > 0
    THEN IF ~data.flat
         THEN DecodeThrow("Struct decoding requires topics and data object")
         ELSE AsArray(AbiParametersDecode(abiItem.inputs, data.bytes))
    ELSE ListValue(<< >>)

(***************************************************************************)
(* fullAbi.fromAbi: the lookup of an item in a JSON ABI.                   *)
(* An identifier is absent, the empty string, a name, or "0x" and bytes.   *)
(***************************************************************************)

NoIdentifier == [form |-> "absent", name |-> << >>, bytes |-> << >>]
EmptyIdentifier == [form |-> "empty", name |-> << >>, bytes |-> << >>]
NameIdentifier(name) == [form |-> "name", name |-> name, bytes |-> << >>]
HexIdentifier(bytes) == [form |-> "hex", name |-> << >>, bytes |-> bytes]

\* A JSON ABI: an array of items, or one item that stands alone.
AbiArray(items) == [isArray |-> TRUE, items |-> items]
AbiObject(abiItem) == [isArray |-> FALSE, items |-> <<abiItem>>]

NullItem == Item("null", << >>, << >>, << >>)

\* Hex.slice(name, 0, 4): the first 4 bytes, or all of a shorter string.
SliceFirst4(bytes) ==
    IF bytes = << >> THEN << >>
    ELSE IF Head(bytes).size > 4 THEN <<[Head(bytes) EXCEPT !.size = 4]>>
    ELSE <<Head(bytes)>>

\* The filter of AbiItem.fromAbi that compares names only.
MatchesIdentifier_NameOnly(abiItem, id) ==
    abiItem.name # << >> /\ abiItem.name = id.name

\* The filter of AbiItem.fromAbi: a hex identifier is compared with the selector
\* of a function or error and with the hash of an event, a name with the name.
MatchesIdentifier(abiItem, id) ==
    IF id.form = "hex"
    THEN IF abiItem.kind \in {"function", "error"}
         THEN <<getSelector(abiItem)>> = SliceFirst4(id.bytes)
         ELSE IF abiItem.kind = "event"
         THEN <<getSignatureHash(abiItem)>> = id.bytes
         ELSE FALSE
    ELSE abiItem.name # << >> /\ abiItem.name = id.name

\* AbiItem.fromAbi without args: the one match; of several the first without
\* inputs, else the first; none throws NotFoundError.
AbiItemFromAbi(items, id) ==
    LET found == {i \in 1..Len(items) : MatchesIdentifier(items[i], id)}
        empty == {i \in found : Len(items[i].inputs) = 0}
    IN  IF found = {} THEN Thrown
        ELSE IF Cardinality(found) = 1 THEN items[Min(found)]
        ELSE IF empty # {} THEN items[Min(empty)]
        ELSE items[Min(found)]

\* AbiFunction.fromAbi: the item AbiItem.fromAbi finds, which must be a function.
AbiFunctionFromAbi(items, id) ==
    IF AbiItemFromAbi(items, id).kind # "function" THEN Thrown
    ELSE AbiItemFromAbi(items, id)

\* JSON.stringify of an item: {"type":"function","name":"transfer",...}
JSONStringify(abiItem) ==
    <<"{", "\"type\"", ":", "\"" \o abiItem.kind \o "\"", COMMA, "\"name\"", ":">>
        \o abiItem.name \o <<"}">>

SignatureKinds == {"function", "event", "error", "constructor"}

fromAbi(abi, identifier) ==
    IF abi.items = << >> THEN NullItem
    ELSE IF identifier.form \in {"name", "hex"}
    THEN IF AbiFunctionFromAbi(abi.items, identifier) = Thrown THEN NullItem
         ELSE AbiFunctionFromAbi(abi.items, identifier)
    ELSE LET first == {i \in 1..Len(abi.items) : abi.items[i].kind \in SignatureKinds}
         IN  IF first = {} THEN NullItem
             ELSE from(JSONStringify(abi.items[Min(first)]))

(***************************************************************************)
(* The inputs: signature strings, argument lists, options and payloads.    *)
(***************************************************************************)

Prefixes ==
    {<< >>, <<"function", SP>>, <<"event", SP>>, <<"error", SP>>,
     <<"constructor">>, <<"foo", SP>>}

Names == {<< >>, <<"foo">>}

ParamEntries ==
    {<<"uint">>, <<"address">>, <<"int", SP, "a">>,
     <<"address", SP, "indexed", SP, "b">>, <<"foo">>}

Suffixes == {<< >>, <<SP, "foo">>, <<SP, "returns", SP, LP, "uint", RP>>}

SeqsUpTo(S, n) == UNION {[1..k -> S] : k \in 0..n}

\* entries joined by ","
RECURSIVE Join(_)
Join(entries) ==
    IF entries = << >> THEN << >>
    ELSE IF Len(entries) = 1 THEN entries[1]
    ELSE entries[1] \o <<COMMA>> \o Join(Tail(entries))

\* The text of a signature: prefix, name, the parameter list, suffix.
Text(pre, name, entries, suf) ==
    pre \o name \o <<LP>> \o Join(entries) \o <<RP>> \o suf

ParamLists == SeqsUpTo(ParamEntries, MaxParams)

ArgLists == SeqsUpTo(ArgStrings, MaxArgs)

Bytecode == <<Chunk(2, "code", 0, NoSig)>>

OptionSets ==
    {Options(packed, hasBytecode, bytecode) :
        packed \in {"true", "false", "absent"},
        hasBytecode \in BOOLEAN, bytecode \in {<< >>, Bytecode}}
    \ {Options(packed, FALSE, Bytecode) : packed \in {"true", "false", "absent"}}

\* The payload that hands the result of encode back to decode: the byte string
\* itself, the {topics} object of an event, or for a constructor the object
\* {bytecode, data} with the bytecode that was given to encode.
RoundTripPayload(abiItem, options, result) ==
    IF result.res = "topics"
    THEN ObjectPayload(FALSE, << >>, TRUE, result.topics, FALSE, << >>)
    ELSE IF abiItem.kind = "constructor"
    THEN ObjectPayload(TRUE, result.bytes, FALSE, << >>, TRUE,
                       IF options.hasBytecode THEN options.bytecode ELSE << >>)
    ELSE FlatPayload(result.bytes)

\* The log of an event: the topics of encode, and as data the encoding of the
\* arguments of the inputs that are not indexed.
LogPayloads(abiItem, argList, result) ==
    IF result.res = "topics" /\ Len(argList) = Len(abiItem.inputs)
    THEN LET non  == Indices(abiItem.inputs, FALSE)
             data == AbiParametersEncode(
                         Filtered(abiItem.inputs, FALSE),
                         [k \in 1..Cardinality(non) |-> argList[Nth(non, k)]])
         IN  IF data.res = "hex"
             THEN {ObjectPayload(TRUE, data.bytes, TRUE, result.topics, FALSE, << >>)}
             ELSE {}
    ELSE {}

Payloads(abiItem, argList, options, result) ==
    {RoundTripPayload(abiItem, options, result),
     FlatPayload(result.bytes),
     ObjectPayload(TRUE, result.bytes, TRUE, result.topics, FALSE, << >>),
     ObjectPayload(TRUE, result.bytes, FALSE, << >>, FALSE, << >>),
     ObjectPayload(FALSE, << >>, FALSE, << >>, TRUE, << >>)}
    \cup LogPayloads(abiItem, argList, result)

\* The items of a JSON ABI.
AbiParam(type, name, indexed) == [name |-> name, type |-> type, indexed |-> indexed]

AbiEntries ==
    {Item("function", <<"transfer">>,
          <<AbiParam("address", <<"to">>, FALSE), AbiParam("uint256", <<"amount">>, FALSE)>>,
          << >>),
     Item("function", <<"foo">>, <<AbiParam("uint256", <<"a">>, FALSE)>>, << >>),
     Item("event", <<"Transfer">>,
          <<AbiParam("address", <<"from">>, TRUE), AbiParam("uint256", <<"value">>, FALSE)>>,
          << >>),
     Item("event", <<"foo">>, <<AbiParam("uint256", <<"a">>, FALSE)>>, << >>),
     Item("error", <<"BadTransfer">>, <<AbiParam("uint256", <<"code">>, FALSE)>>, << >>),
     Item("constructor", << >>, << >>, << >>),
     Item("fallback", << >>, << >>, << >>)}

MaxAbi == 2

Abis == {AbiArray(items) : items \in SeqsUpTo(AbiEntries, MaxAbi)}
            \cup {AbiObject(abiItem) : abiItem \in AbiEntries}

ZeroSelector == <<Chunk(4, "num", 0, NoSig)>>

Identifiers ==
    {NoIdentifier, EmptyIdentifier}
        \cup {NameIdentifier(<<n>>) : n \in {"transfer", "Transfer", "BadTransfer", "foo", "bar"}}
        \cup {HexIdentifier(<<getSelector(e)>>) : e \in AbiEntries}
        \cup {HexIdentifier(<<getSignatureHash(e)>>) : e \in AbiEntries}
        \cup {HexIdentifier(ZeroSelector), HexIdentifier(<< >>)}

(***************************************************************************)
(* The Encoder component: the signature field, the items of a pasted JSON  *)
(* ABI, the parameter form and the Encode submission.                      *)
(***************************************************************************)

\* A JSON value of a pasted ABI that is not an object, such as 1.
JsonNumber == Item("number", << >>, << >>, << >>)

\* The text of the signature field: a plain string, or the JSON text of an
\* array or of one object, each object of the text taken as one lexeme.
PlainSig(text) == [json |-> "none", text |-> text, items |-> << >>]

JsonText(items) ==
    [i \in 1..Len(items) |->
        IF items[i] = JsonNumber THEN <<"1">>
        ELSE <<"{\"type\":\"" \o items[i].kind \o "\",...}">>]

JsonSig(form, items) ==
    [json |-> form,
     text |-> IF form = "array" THEN <<"[">> \o Join(JsonText(items)) \o <<"]">>
              ELSE Join(JsonText(items)),
     items |-> items]

\* abiItems: null, or the array of items.
NoAbiItems == [isNull |-> TRUE, items |-> << >>]
AbiItems(items) == [isNull |-> FALSE, items |-> items]

\* JSON.parse(sig) in the effect on sig: an array is taken as it is, an object
\* as an array of one, anything else gives null.
ParsedAbiItems(sig) ==
    IF sig.json = "array" THEN AbiItems(sig.items)
    ELSE IF sig.json = "object" THEN AbiItems(<<sig.items[1]>>)
    ELSE NoAbiItems

\* sigError is null or a message.
NoMessage == "null"
SigMessage == "Invalid signature"

\* name || `arg${idx}`
FieldName(name, idx) == IF name # << >> THEN name ELSE <<"arg" \o ToString(idx)>>

\* Does the memo paramFields throw: getParameter tests "type" in abiItem, which
\* is a TypeError for a value that is not an object.
ParamFieldsThrows(abiObj) == abiObj = JsonNumber

\* The memo paramFields.
ParamFields(abiObj) ==
    IF abiObj = NullItem THEN << >>
    ELSE [i \in 1..Len(getParameter(abiObj)) |->
             [name |-> FieldName(getParameter(abiObj)[i].name, i - 1),
              type |-> getParameter(abiObj)[i].type]]

\* The keys of the form: one per field name.
FieldNames(paramFields) == {paramFields[i].name : i \in 1..Len(paramFields)}

\* paramFields.map((f) => data[f.name])
SubmittedArgs(paramFields, data) ==
    [i \in 1..Len(paramFields) |-> data[paramFields[i].name]]

\* encoded after a failed submission: the empty string.
EmptyResult == [res |-> "empty", bytes |-> << >>, topics |-> << >>, msg |-> ""]

\* The component after its first render. entered and submitted hold the values
\* of the last submission: per input of the form, and as handed to encode.
EncoderMounted ==
    [sig |-> PlainSig(<< >>), sigError |-> NoMessage, encoded |-> NoResult,
     usePacked |-> FALSE, abiItems |-> NoAbiItems, selectedIndex |-> 0,
     abiObj |-> NullItem, paramFields |-> << >>,
     entered |-> << >>, submitted |-> << >>, crashed |-> FALSE]

EncoderTexts ==
    {Text(<< >>, <<"foo">>, <<<<"address">>>>, << >>),
     Text(<< >>, <<"foo">>, <<<<"uint", SP, "arg1">>, <<"uint">>>>, << >>),
     Text(<< >>, <<"foo">>, <<<<"int", SP, "a">>, <<"int", SP, "a">>>>, << >>),
     Text(<< >>, << >>, <<<<"uint">>, <<"address">>>>, << >>),
     Text(<<"event", SP>>, <<"foo">>, <<<<"int", SP, "a">>>>, << >>),
     <<"foo", LP>>}

JsonValues ==
    {Item("function", <<"transfer">>,
          <<AbiParam("address", <<"to">>, FALSE), AbiParam("uint256", <<"amount">>, FALSE)>>,
          << >>),
     Item("error", <<"BadTransfer">>, <<AbiParam("uint256", <<"code">>, FALSE)>>, << >>),
     JsonNumber}

EncoderSigs ==
    {PlainSig(text) : text \in EncoderTexts \cup {<< >>}}
        \cup {JsonSig("array", items) : items \in SeqsUpTo(JsonValues, MaxAbi)}
        \cup {JsonSig("object", <<v>>) : v \in JsonValues \ {JsonNumber}}

\* fullAbi.from(sig) for each text the signature field is given.
ClassifiedSig == [s \in EncoderSigs |-> from(s.text)]

\* The memo abiObj and the message it hands to setSigError (NoMessage: none).
EncoderAbiObj(abiItems, selectedIndex, sig) ==
    IF ~abiItems.isNull
    THEN IF abiItems.items = << >> THEN [obj |-> NullItem, error |-> NoMessage]
         ELSE [obj |-> abiItems.items[Min({selectedIndex, Len(abiItems.items) - 1}) + 1],
               error |-> NoMessage]
    ELSE IF sig.text = << >> THEN [obj |-> NullItem, error |-> NoMessage]
    ELSE IF ClassifiedSig[sig] = Thrown THEN [obj |-> NullItem, error |-> SigMessage]
    ELSE [obj |-> ClassifiedSig[sig], error |-> NoMessage]

(***************************************************************************)
(* The Decoder component: the hex field, the signature field, the lookup   *)
(* of the selector and the Decode submission.                              *)
(***************************************************************************)

\* The text of the hex field: whether /^0x[0-9a-fA-F]+$/ matches it, its
\* length in characters, and the bytes it writes.
HexText(valid, chars, bytes) == [valid |-> valid, chars |-> chars, bytes |-> bytes]

ValidHex(bytes) == HexText(TRUE, 2 + 2 * Size(bytes), bytes)

\* selector: hex.slice(0, 10) of a hex string of at least 10 characters, else "".
Selector(hex) ==
    IF hex.valid /\ hex.chars >= 10 THEN SliceFirst4(hex.bytes) ELSE << >>

\* enabled of useSignatureLookup: some function hash is given.
LookupEnabled(hex) == Selector(hex) # << >>

\* sigData: undefined, or the names the service returned for the selector.
NoData == [loaded |-> FALSE, names |-> << >>]
SigData(names) == [loaded |-> TRUE, names |-> names]

\* sig || Object.values(sigData.result.function).flat()[0]?.name || ""
EffectiveSig(sig, sigData) ==
    IF sig.text # << >> THEN sig
    ELSE IF sigData.names # << >> THEN sigData.names[1]
    ELSE PlainSig(<< >>)

LookedUpName == PlainSig(Text(<< >>, <<"foo">>, <<<<"uint256">>>>, << >>))

DecoderTexts ==
    {Text(<< >>, <<"foo">>, <<<<"uint256", SP, "a">>>>, << >>),
     Text(<< >>, <<"foo">>, <<<<"address">>>>, << >>),
     <<"foo", LP>>}

DecoderAbis ==
    SeqsUpTo({e \in AbiEntries : e.name \in {<<"transfer">>, <<"foo">>, <<"Transfer">>}},
             MaxAbi)

DecoderSigs ==
    {PlainSig(text) : text \in DecoderTexts \cup {<< >>}}
        \cup {JsonSig("array", items) : items \in DecoderAbis}
        \cup {JsonSig("object", <<e>>) : e \in {a \in AbiEntries : a.name = <<"foo">>}}

\* fullAbi.from(effectiveSig) for each text the Decoder is given.
ClassifiedEffectiveSig == [s \in DecoderSigs \cup {LookedUpName} |-> from(s.text)]

\* parsed.find((x) => x.type === "function")?.name || ""
FirstFunctionName(items) ==
    IF \E i \in 1..Len(items) : items[i].kind = "function"
    THEN NameIdentifier(items[Min({i \in 1..Len(items) : items[i].kind = "function"})].name)
    ELSE EmptyIdentifier

\* The first try of the memo abiObj, for JSON text: the item it returns, Thrown
\* when AbiFunction.fromAbi throws, NullItem when it returns null with a
\* message, and NoItem for text that is not JSON.
ParsedAbiObj(effectiveSig, selector) ==
    IF effectiveSig.json = "array"
    THEN AbiFunctionFromAbi(effectiveSig.items,
                            IF selector # << >> THEN HexIdentifier(selector)
                            ELSE FirstFunctionName(effectiveSig.items))
    ELSE IF effectiveSig.json = "object"
    THEN IF effectiveSig.items[1].kind = "function" THEN effectiveSig.items[1]
         ELSE NullItem
    ELSE NoItem

\* The memo abiObj of the Decoder and the value it leaves in sigError. An
\* error that AbiFunction.fromAbi throws is caught as if the text were not
\* JSON, and the text goes on to fullAbi.from.
DecoderAbiObj(effectiveSig, selector, classified) ==
    IF effectiveSig.text = << >> THEN [obj |-> NullItem, error |-> NoMessage]
    ELSE IF ParsedAbiObj(effectiveSig, selector) = NullItem
    THEN [obj |-> NullItem, error |-> "ABI object must be function"]
    ELSE IF ParsedAbiObj(effectiveSig, selector) \notin {Thrown, NoItem}
    THEN [obj |-> ParsedAbiObj(effectiveSig, selector), error |-> NoMessage]
    ELSE IF classified = Thrown THEN [obj |-> NullItem, error |-> SigMessage]
    ELSE [obj |-> classified, error |-> NoMessage]

\* The render of the Decoder: the memo abiObj follows effectiveSig and selector.
DecoderRendered(d) ==
    CHOOSE r \in {[d EXCEPT !.abiObj = m.obj, !.sigError = m.error,
                            !.enabled = LookupEnabled(d.hex)] :
                    m \in {DecoderAbiObj(EffectiveSig(d.sig, d.sigData), Selector(d.hex),
                               ClassifiedEffectiveSig[EffectiveSig(d.sig, d.sigData)])}} :
        TRUE

DecoderMounted ==
    [sig |-> PlainSig(<< >>), hex |-> HexText(FALSE, 0, << >>), sigData |-> NoData,
     enabled |-> FALSE, sigError |-> NoMessage, decodeError |-> NoMessage,
     decoded |-> NoValue, abiObj |-> NullItem]

DecoderHexes ==
    {HexText(FALSE, 0, << >>), HexText(FALSE, 12, << >>),
     ValidHex(<<Chunk(1, "num", 18, NoSig)>>),
     ValidHex(ZeroSelector \o <<Word(7)>>)}
        \cup {ValidHex(<<getSelector(e)>> \o <<Word(7)>>) :
                e \in {a \in AbiEntries : a.name = <<"foo">> /\ a.kind = "function"}}
        \cup {ValidHex(<<getSelector(e)>> \o <<Word(10), Word(7)>>) :
                e \in {a \in AbiEntries : a.name = <<"transfer">>}}

Responses == {SigData(<< >>), SigData(<<LookedUpName>>)}

(***************************************************************************)
(* The Calculator component. A field holds a text, a sequence of           *)
(* characters; a number is an integer or NaN. The 32 bits of JavaScript's  *)
(* bitwise operators and of MAX_SAFE_INTEGER_FOR_BITWISE are scaled down   *)
(* to Bits.                                                                *)
(***************************************************************************)

Bits == 4

Pow2(k) == IF k = 0 THEN 1 ELSE IF k = 1 THEN 2 ELSE IF k = 2 THEN 4 ELSE IF k = 3 THEN 8
           ELSE IF k = 4 THEN 16 ELSE IF k = 5 THEN 32 ELSE IF k = 6 THEN 64 ELSE 128

\* 2^31 - 1 in the source
MAX_SAFE_INTEGER_FOR_BITWISE == Pow2(Bits - 1) - 1

DigitChars == <<"0", "1", "2", "3", "4", "5", "6", "7", "8", "9",
                "A", "B", "C", "D", "E", "F">>

IsDigit(c, radix) == \E v \in 1..radix : DigitChars[v] = c

DigitValue(c) == (CHOOSE v \in 1..16 : DigitChars[v] = c) - 1

Radix(base) == IF base = "hex" THEN 16 ELSE IF base = "bin" THEN 2 ELSE 10

\* baseRegex[base].test(text)
baseRegex(base, text) == \A i \in 1..Len(text) : IsDigit(text[i], Radix(base))

NaN == [nan |-> TRUE, n |-> 0]
Number(n) == [nan |-> FALSE, n |-> n]

\* The value of the longest prefix of digits of the radix, after acc.
RECURSIVE ParseDigits(_, _, _)
ParseDigits(text, radix, acc) ==
    IF text = << >> \/ ~IsDigit(Head(text), radix) THEN acc
    ELSE ParseDigits(Tail(text), radix, acc * radix + DigitValue(Head(text)))

\* Number.parseInt(text, radix): a sign, then the digits up to the first
\* character that is none; NaN without a digit.
parseInt(text, radix) ==
    IF text # << >> /\ Head(text) = "-"
    THEN IF Len(text) < 2 \/ ~IsDigit(text[2], radix) THEN NaN
         ELSE Number(0 - ParseDigits(Tail(text), radix, 0))
    ELSE IF text = << >> \/ ~IsDigit(Head(text), radix) THEN NaN
    ELSE Number(ParseDigits(text, radix, 0))

RECURSIVE DigitsOf(_, _)
DigitsOf(n, radix) ==
    IF n < radix THEN <<DigitChars[n + 1]>>
    ELSE DigitsOf(n \div radix, radix) \o <<DigitChars[(n % radix) + 1]>>

\* number.toString(radix), in upper case
NumberToString(number, radix) ==
    IF number.nan THEN <<"N", "a", "N">>
    ELSE IF number.n < 0 THEN <<"-">> \o DigitsOf(0 - number.n, radix)
    ELSE DigitsOf(number.n, radix)

\* ToInt32 and its inverse, at Bits bits.
ToUnsigned(n) == n % Pow2(Bits)
ToSigned(u) == IF u >= Pow2(Bits - 1) THEN u - Pow2(Bits) ELSE u

BitOf(u, i) == (u \div Pow2(i)) % 2

BitFn(op, x, y) ==
    IF op = "or" THEN IF x + y > 0 THEN 1 ELSE 0
    ELSE IF op = "xor" THEN (x + y) % 2
    ELSE x * y

RECURSIVE BitwiseFrom(_, _, _, _)
BitwiseFrom(op, a, b, i) ==
    IF i = Bits THEN 0
    ELSE BitFn(op, BitOf(a, i), BitOf(b, i)) * Pow2(i) + BitwiseFrom(op, a, b, i + 1)

\* a | b, a ^ b, a & b
Bitwise(op, a, b) == ToSigned(BitwiseFrom(op, ToUnsigned(a), ToUnsigned(b), 0))

\* Math.trunc(a / b) for b # 0
TruncDiv(a, b) ==
    IF (a < 0) = (b < 0)
    THEN (IF a < 0 THEN 0 - a ELSE a) \div (IF b < 0 THEN 0 - b ELSE b)
    ELSE 0 - ((IF a < 0 THEN 0 - a ELSE a) \div (IF b < 0 THEN 0 - b ELSE b))

Ops == {"shiftLeft", "shiftRight", "add", "sub", "or", "xor", "and", "mult", "div",
        "mod", "not"}

\* The switch of handleOperate: the result of the operation on dec and opVal.
\* The division by 0 has returned before; the remainder by 0 is NaN.
Operate(operation, dec, opVal) ==
    IF operation = "shiftLeft"
    THEN Number(ToSigned((ToUnsigned(dec) * Pow2(opVal % Bits)) % Pow2(Bits)))
    ELSE IF operation = "shiftRight" THEN Number(dec \div Pow2(opVal % Bits))
    ELSE IF operation = "add" THEN Number(dec + opVal)
    ELSE IF operation = "sub" THEN Number(dec - opVal)
    ELSE IF operation \in {"or", "xor", "and"} THEN Number(Bitwise(operation, dec, opVal))
    ELSE IF operation = "mult" THEN Number(dec * opVal)
    ELSE IF operation = "div" THEN Number(TruncDiv(dec, opVal))
    ELSE IF operation = "mod"
    THEN IF opVal = 0 THEN NaN ELSE Number(dec - opVal * TruncDiv(dec, opVal))
    ELSE Number(0 - dec - 1)

Abs(n) == IF n < 0 THEN 0 - n ELSE n

\* text || "0"
OrZero(text) == IF text = << >> THEN <<"0">> ELSE text

\* The value handleOperate writes to the decimal field, or that it returns
\* before it writes: "nan", "range", "zero".
OperateOutcome(c) ==
    LET dec   == parseInt(OrZero(c.decimal), 10)
        opVal == IF c.operation = "not" THEN Number(0)
                 ELSE parseInt(OrZero(c.operand), Radix(c.operandBase))
    IN  IF dec.nan \/ opVal.nan THEN [kind |-> "nan", text |-> << >>]
        ELSE IF Abs(dec.n) > MAX_SAFE_INTEGER_FOR_BITWISE
                \/ Abs(opVal.n) > MAX_SAFE_INTEGER_FOR_BITWISE
        THEN [kind |-> "range", text |-> << >>]
        ELSE IF c.operation = "div" /\ opVal.n = 0 THEN [kind |-> "zero", text |-> << >>]
        ELSE [kind |-> "written",
              text |-> NumberToString(Operate(c.operation, dec.n, opVal.n), 10)]

\* The effect that synchronises the fields with the one changed last.
Synchronized(c) ==
    LET changed == IF c.lastChanged = "binary" THEN c.binary
                   ELSE IF c.lastChanged = "decimal" THEN c.decimal
                   ELSE c.hex
        radix   == IF c.lastChanged = "binary" THEN 2
                   ELSE IF c.lastChanged = "decimal" THEN 10 ELSE 16
        dec     == parseInt(changed, radix)
    IN  IF c.lastChanged = "null" THEN c
        ELSE IF changed = << >>
        THEN [c EXCEPT !.binary = << >>, !.decimal = << >>, !.hex = << >>]
        ELSE IF dec.nan THEN c
        ELSE [c EXCEPT
                 !.binary = IF c.lastChanged = "binary" THEN c.binary
                            ELSE NumberToString(dec, 2),
                 !.decimal = IF c.lastChanged = "decimal" THEN c.decimal
                             ELSE NumberToString(dec, 10),
                 !.hex = IF c.lastChanged = "hex" THEN c.hex
                         ELSE NumberToString(dec, 16)]

\* sanitizeOperand(val, base)
RECURSIVE sanitizeOperand(_, _)
sanitizeOperand(val, base) ==
    IF val = << >> THEN << >>
    ELSE IF IsDigit(Head(val), Radix(base))
    THEN <<Head(val)>> \o sanitizeOperand(Tail(val), base)
    ELSE sanitizeOperand(Tail(val), base)

CalculatorMounted ==
    [binary |-> << >>, decimal |-> << >>, hex |-> << >>, operand |-> << >>,
     operandBase |-> "dec", operation |-> "add", lastChanged |-> "null",
     operandError |-> FALSE]

\* The texts typed into a value field and into the operand field.
FieldTexts == {<< >>, <<"1", "0", "1">>, <<"1", "2">>, <<"7">>, <<"F", "F">>}

OperandTexts == {<< >>, <<"0">>, <<"3">>, <<"1", "9">>}

(***************************************************************************)
(* The state: one signature is classified, its parameters are listed, an   *)
(* argument list is encoded and a payload is decoded.                      *)
(***************************************************************************)

\* written: the parameter entries the signature raw was written with.
\* abi, identifier, lookup: a JSON ABI, an identifier and what fromAbi returns.
\* encoder, decoder, calculator: the state of the three components.
VARIABLES raw, written, item, params, args, options, encoded, payload, decoded, pc,
          abi, identifier, lookup, encoder, decoder, calculator

abiVars == <<abi, identifier, lookup>>

facadeVars == <<raw, written, item, params, args, options, encoded, payload, decoded, pc>>

uiVars == <<encoder, decoder, calculator>>

vars == <<raw, written, item, params, args, options, encoded, payload, decoded, pc,
          abi, identifier, lookup, encoder, decoder, calculator>>

Init ==
    /\ \E pre \in Prefixes, name \in Names, suf \in Suffixes, entries \in ParamLists :
        /\ raw = Text(pre, name, entries, suf)
        /\ written = entries
    /\ item = NoItem
    /\ params = << >>
    /\ args = << >>
    /\ options = DefaultOptions
    /\ encoded = NoResult
    /\ payload = NoPayload
    /\ decoded = NoValue
    /\ pc = "start"
    /\ abi = AbiArray(<< >>)
    /\ identifier = NoIdentifier
    /\ lookup = NoItem
    /\ encoder = EncoderMounted
    /\ decoder = DecoderMounted
    /\ calculator = CalculatorMounted

DoFrom ==
    /\ pc = "start"
    /\ item' = from(raw)
    /\ pc' = "classified"
    /\ UNCHANGED <<raw, written, params, args, options, encoded, payload, decoded>>
    /\ UNCHANGED abiVars
    /\ UNCHANGED uiVars

DoGetParameter ==
    /\ pc = "classified"
    /\ item.kind # "throw"
    /\ params' = getParameter(item)
    /\ pc' = "listed"
    /\ UNCHANGED <<raw, written, item, args, options, encoded, payload, decoded>>
    /\ UNCHANGED abiVars
    /\ UNCHANGED uiVars

DoEncode ==
    /\ pc = "listed"
    /\ \E a \in ArgLists, o \in OptionSets :
        /\ args' = a
        /\ options' = o
        /\ encoded' = encode(item, a, o)
    /\ pc' = "encoded"
    /\ UNCHANGED <<raw, written, item, params, payload, decoded>>
    /\ UNCHANGED abiVars
    /\ UNCHANGED uiVars

DoDecode ==
    /\ pc = "encoded"
    /\ encoded.res \in {"hex", "topics"}
    /\ \E p \in Payloads(item, args, options, encoded) :
        /\ payload' = p
        /\ decoded' = decode(item, p)
    /\ pc' = "decoded"
    /\ UNCHANGED <<raw, written, item, params, args, options, encoded>>
    /\ UNCHANGED abiVars
    /\ UNCHANGED uiVars

Next == DoFrom \/ DoGetParameter \/ DoEncode \/ DoDecode

Spec == Init /\ [][Next]_vars

\* The lookup: a JSON ABI and an identifier are handed to fromAbi.
InitAbi ==
    /\ abi \in Abis
    /\ identifier \in Identifiers
    /\ lookup = NoItem
    /\ raw = << >>
    /\ written = << >>
    /\ item = NoItem
    /\ params = << >>
    /\ args = << >>
    /\ options = DefaultOptions
    /\ encoded = NoResult
    /\ payload = NoPayload
    /\ decoded = NoValue
    /\ pc = "abi"
    /\ encoder = EncoderMounted
    /\ decoder = DecoderMounted
    /\ calculator = CalculatorMounted

DoFromAbi ==
    /\ pc = "abi"
    /\ lookup' = fromAbi(abi, identifier)
    /\ pc' = "looked"
    /\ UNCHANGED <<raw, written, item, params, args, options, encoded, payload, decoded>>
    /\ UNCHANGED <<abi, identifier>>
    /\ UNCHANGED uiVars

NextAbi == DoFromAbi

SpecAbi == InitAbi /\ [][NextAbi]_vars

\* The direct call: encode and decode are handed an item that need not come
\* from from, such as a tuple parameter without components.
DirectItems ==
    AbiEntries \cup
        {Item("tuple", << >>, << >>, << >>),
         Item("tuple", << >>, <<AbiParam("uint256", << >>, FALSE)>>, << >>)}

GivenPayloads ==
    {FlatPayload(<< >>), FlatPayload(<<Word(7)>>),
     ObjectPayload(TRUE, <<Word(7)>>, TRUE, << >>, TRUE, << >>)}

InitDirect ==
    /\ item \in DirectItems
    /\ raw = << >>
    /\ written = << >>
    /\ params = << >>
    /\ args = << >>
    /\ options = DefaultOptions
    /\ encoded = NoResult
    /\ payload = NoPayload
    /\ decoded = NoValue
    /\ pc = "listed"
    /\ abi = AbiArray(<< >>)
    /\ identifier = NoIdentifier
    /\ lookup = NoItem
    /\ encoder = EncoderMounted
    /\ decoder = DecoderMounted
    /\ calculator = CalculatorMounted

DoDecodeGiven ==
    /\ pc = "encoded"
    /\ \E p \in GivenPayloads :
        /\ payload' = p
        /\ decoded' = decode(item, p)
    /\ pc' = "decoded"
    /\ UNCHANGED <<raw, written, item, params, args, options, encoded>>
    /\ UNCHANGED abiVars
    /\ UNCHANGED uiVars

NextDirect == DoEncode \/ DoDecodeGiven

SpecDirect == InitDirect /\ [][NextDirect]_vars

(***************************************************************************)
(* The handlers of the Encoder component.                                  *)
(***************************************************************************)

\* A change of the signature field: the render with the new sig, the effect
\* on sig, and the render after it. The memo abiObj is computed in the first
\* render from the abiItems and selectedIndex of before, and again in the
\* second only when the effect changed one of them.
EncChangeSig ==
    /\ ~encoder.crashed
    /\ \E s \in EncoderSigs \ {encoder.sig} :
        \E first \in {EncoderAbiObj(encoder.abiItems, encoder.selectedIndex, s)},
           parsed \in {ParsedAbiItems(s)} :
            \E second \in {IF encoder.abiItems.isNull /\ parsed.isNull
                                /\ encoder.selectedIndex = 0
                            THEN [obj |-> first.obj, error |-> NoMessage]
                            ELSE EncoderAbiObj(parsed, 0, s)} :
                IF ParamFieldsThrows(first.obj) \/ ParamFieldsThrows(second.obj)
                THEN encoder' = [encoder EXCEPT !.sig = s, !.crashed = TRUE]
                ELSE encoder' = [encoder EXCEPT
                         !.sig = s, !.sigError = second.error, !.encoded = NoResult,
                         !.selectedIndex = 0, !.abiItems = parsed,
                         !.abiObj = second.obj,
                         !.paramFields = ParamFields(second.obj),
                         !.entered = << >>, !.submitted = << >>]
    /\ UNCHANGED <<facadeVars, abiVars, decoder, calculator>>

\* The Select of the items of a pasted ABI.
EncSelect ==
    /\ ~encoder.crashed
    /\ ~encoder.abiItems.isNull
    /\ Len(encoder.abiItems.items) > 1
    /\ \E idx \in (0..(Len(encoder.abiItems.items) - 1)) \ {encoder.selectedIndex} :
        \E picked \in {EncoderAbiObj(encoder.abiItems, idx, encoder.sig)} :
            IF ParamFieldsThrows(picked.obj)
            THEN encoder' = [encoder EXCEPT !.selectedIndex = idx, !.crashed = TRUE]
            ELSE encoder' = [encoder EXCEPT
                     !.selectedIndex = idx, !.abiObj = picked.obj,
                     !.paramFields = ParamFields(picked.obj)]
    /\ UNCHANGED <<facadeVars, abiVars, decoder, calculator>>

\* The checkbox shown for a tuple.
EncSetUsePacked ==
    /\ ~encoder.crashed
    /\ encoder.abiObj.kind = "tuple"
    /\ encoder' = [encoder EXCEPT !.usePacked = ~encoder.usePacked]
    /\ UNCHANGED <<facadeVars, abiVars, decoder, calculator>>

\* handleEncode, run by the Encode button with the values of the form, each a
\* string that is not empty.
handleEncode ==
    /\ ~encoder.crashed
    /\ encoder.abiObj.kind \in {"function", "error", "tuple"}
    /\ \E data \in [FieldNames(encoder.paramFields) -> ArgStrings] :
        LET hex == encode(encoder.abiObj, SubmittedArgs(encoder.paramFields, data),
                          Options(IF encoder.usePacked THEN "true" ELSE "false",
                                  FALSE, << >>))
        IN  encoder' = [encoder EXCEPT
                !.encoded = IF hex.res = "throw" THEN EmptyResult ELSE hex,
                !.sigError = IF hex.res = "throw" THEN hex.msg ELSE encoder.sigError,
                !.entered = data,
                !.submitted = SubmittedArgs(encoder.paramFields, data)]
    /\ UNCHANGED <<facadeVars, abiVars, decoder, calculator>>

NextEncoder == EncChangeSig \/ EncSelect \/ EncSetUsePacked \/ handleEncode

InitEncoder ==
    /\ encoder = EncoderMounted
    /\ decoder = DecoderMounted
    /\ calculator = CalculatorMounted
    /\ raw = << >>
    /\ written = << >>
    /\ item = NoItem
    /\ params = << >>
    /\ args = << >>
    /\ options = DefaultOptions
    /\ encoded = NoResult
    /\ payload = NoPayload
    /\ decoded = NoValue
    /\ pc = "ui"
    /\ abi = AbiArray(<< >>)
    /\ identifier = NoIdentifier
    /\ lookup = NoItem

SpecEncoder == InitEncoder /\ [][NextEncoder]_vars

(***************************************************************************)
(* The handlers of the Decoder component.                                  *)
(***************************************************************************)

\* A change of the signature field.
DecChangeSig ==
    /\ \E s \in DecoderSigs \ {decoder.sig} :
        decoder' = DecoderRendered([decoder EXCEPT !.sig = s])
    /\ UNCHANGED <<facadeVars, abiVars, encoder, calculator>>

\* A change of the hex field: a new selector is a new query, without data.
DecChangeHex ==
    /\ \E h \in DecoderHexes \ {decoder.hex} :
        decoder' = DecoderRendered(
                       [decoder EXCEPT
                           !.hex = h,
                           !.sigData = IF Selector(h) = Selector(decoder.hex)
                                       THEN decoder.sigData ELSE NoData])
    /\ UNCHANGED <<facadeVars, abiVars, encoder, calculator>>

\* The query of useSignatureLookup is answered; it runs while enabled.
LookupAnswered ==
    /\ decoder.enabled
    /\ ~decoder.sigData.loaded
    /\ \E r \in Responses : decoder' = DecoderRendered([decoder EXCEPT !.sigData = r])
    /\ UNCHANGED <<facadeVars, abiVars, encoder, calculator>>

\* handlePickSignature: a looked-up name is put in the signature field; the
\* names are shown while sig is empty and the selector has 10 characters.
handlePickSignature ==
    /\ decoder.sig.text = << >>
    /\ Selector(decoder.hex) # << >>
    /\ \E i \in 1..Len(decoder.sigData.names) :
        decoder' = DecoderRendered([decoder EXCEPT !.sig = decoder.sigData.names[i]])
    /\ UNCHANGED <<facadeVars, abiVars, encoder, calculator>>

handleDecode ==
    /\ \E values \in {decode(decoder.abiObj, FlatPayload(decoder.hex.bytes))} :
        decoder' =
            IF decoder.abiObj = NullItem
            THEN [decoder EXCEPT !.decodeError = NoMessage, !.decoded = NoValue]
            ELSE IF decoder.hex.chars < 10
            THEN [decoder EXCEPT
                     !.decodeError = "Hex must be at least 10 characters",
                     !.decoded = NoValue]
            ELSE IF ~decoder.hex.valid
            THEN [decoder EXCEPT
                     !.decodeError = "Hex must be a 0x-prefixed hex string",
                     !.decoded = NoValue]
            ELSE IF values.res = "throw"
            THEN [decoder EXCEPT !.decodeError = values.msg, !.decoded = NoValue]
            ELSE [decoder EXCEPT !.decodeError = NoMessage, !.decoded = values]
    /\ UNCHANGED <<facadeVars, abiVars, encoder, calculator>>

NextDecoder ==
    DecChangeSig \/ DecChangeHex \/ LookupAnswered \/ handlePickSignature \/ handleDecode

InitDecoder ==
    /\ decoder = DecoderMounted
    /\ calculator = CalculatorMounted
    /\ encoder = EncoderMounted
    /\ raw = << >>
    /\ written = << >>
    /\ item = NoItem
    /\ params = << >>
    /\ args = << >>
    /\ options = DefaultOptions
    /\ encoded = NoResult
    /\ payload = NoPayload
    /\ decoded = NoValue
    /\ pc = "ui"
    /\ abi = AbiArray(<< >>)
    /\ identifier = NoIdentifier
    /\ lookup = NoItem

SpecDecoder == InitDecoder /\ [][NextDecoder]_vars

(***************************************************************************)
(* The handlers of the Calculator component.                               *)
(***************************************************************************)

\* onChange of a value field, and the effect that follows it.
CalcChangeField ==
    /\ \E t \in FieldTexts :
        \/ /\ t # calculator.binary
           /\ calculator' = Synchronized([calculator EXCEPT
                                !.binary = t, !.lastChanged = "binary"])
        \/ /\ t # calculator.decimal
           /\ calculator' = Synchronized([calculator EXCEPT
                                !.decimal = t, !.lastChanged = "decimal"])
        \/ /\ t # calculator.hex
           /\ calculator' = Synchronized([calculator EXCEPT
                                !.hex = t, !.lastChanged = "hex"])
    /\ UNCHANGED <<facadeVars, abiVars, encoder, decoder>>

\* onFocus of a value field: the value is the same, so no effect follows.
CalcFocusField ==
    /\ \E f \in {"binary", "decimal", "hex"} \ {calculator.lastChanged} :
        calculator' = [calculator EXCEPT !.lastChanged = f]
    /\ UNCHANGED <<facadeVars, abiVars, encoder, decoder>>

\* onChange of the operand field: the sanitized text is validated by the
\* resolver of the current render, whose schema tests the current base.
CalcChangeOperand ==
    /\ calculator.operation # "not"
    /\ \E t \in OperandTexts :
        /\ sanitizeOperand(t, calculator.operandBase) # calculator.operand
        /\ calculator' = [calculator EXCEPT
               !.operand = sanitizeOperand(t, calculator.operandBase),
               !.operandError = ~baseRegex(calculator.operandBase,
                                           sanitizeOperand(t, calculator.operandBase))]
    /\ UNCHANGED <<facadeVars, abiVars, encoder, decoder>>

\* handleSetOperandBase: setOperandBase(val) asks for a render; trigger runs
\* before it, with the resolver of the last render, whose schema was built
\* for the base of before.
handleSetOperandBase ==
    /\ \E val \in {"dec", "hex", "bin"} \ {calculator.operandBase} :
        calculator' = [calculator EXCEPT
            !.operandBase = val,
            !.operandError = ~baseRegex(calculator.operandBase, calculator.operand)]
    /\ UNCHANGED <<facadeVars, abiVars, encoder, decoder>>

setOperation ==
    /\ \E op \in Ops \ {calculator.operation} :
        calculator' = [calculator EXCEPT !.operation = op]
    /\ UNCHANGED <<facadeVars, abiVars, encoder, decoder>>

\* handleClear: reset() empties the fields and the errors.
handleClear ==
    /\ calculator' = [calculator EXCEPT
           !.binary = << >>, !.decimal = << >>, !.hex = << >>, !.operand = << >>,
           !.operandError = FALSE, !.lastChanged = "null"]
    /\ UNCHANGED <<facadeVars, abiVars, encoder, decoder>>

\* handleOperate, and the effect that follows a write to the decimal field.
handleOperate ==
    /\ \E outcome \in {OperateOutcome(calculator)} :
        calculator' =
            IF outcome.kind = "nan"
            THEN [calculator EXCEPT
                     !.operandError = ~baseRegex(calculator.operandBase,
                                                 calculator.operand)]
            ELSE IF outcome.kind \in {"range", "zero"} THEN calculator
            ELSE Synchronized([calculator EXCEPT
                     !.decimal = outcome.text, !.lastChanged = "decimal"])
    /\ UNCHANGED <<facadeVars, abiVars, encoder, decoder>>

NextCalculator ==
    \/ CalcChangeField
    \/ CalcFocusField
    \/ CalcChangeOperand
    \/ handleSetOperandBase
    \/ setOperation
    \/ handleClear
    \/ handleOperate

InitCalculator ==
    /\ calculator = CalculatorMounted
    /\ decoder = DecoderMounted
    /\ encoder = EncoderMounted
    /\ raw = << >>
    /\ written = << >>
    /\ item = NoItem
    /\ params = << >>
    /\ args = << >>
    /\ options = DefaultOptions
    /\ encoded = NoResult
    /\ payload = NoPayload
    /\ decoded = NoValue
    /\ pc = "ui"
    /\ abi = AbiArray(<< >>)
    /\ identifier = NoIdentifier
    /\ lookup = NoItem

SpecCalculator == InitCalculator /\ [][NextCalculator]_vars

(***************************************************************************)
(* Properties.                                                             *)
(***************************************************************************)

Classified == pc # "start"
Listed == pc \in {"listed", "encoded", "decoded"}
Encoded == pc \in {"encoded", "decoded"}

\* The type a written parameter entry declares, uint and int written out.
WrittenType(entry) ==
    IF entry[1] = "uint" THEN "uint256"
    ELSE IF entry[1] = "int" THEN "int256"
    ELSE entry[1]

\* The name a written parameter entry declares (none: the empty name).
WrittenName(entry) == IF Len(entry) > 1 THEN <<entry[Len(entry)]>> ELSE << >>

\* The value an argument string stands for as a value of the type.
Logical(type, str) ==
    IF type = "address" THEN AddressValue(ToBigInt(str)) ELSE BigIntValue(ToBigInt(str))

\* The argument list matches the item's parameters in number and in form.
Matches(abiItem, argList) ==
    /\ Len(argList) = Len(abiItem.inputs)
    /\ \A i \in 1..Len(argList) : Encodable(abiItem.inputs[i].type, argList[i])

\* C1: for every supported kind (a tuple not packed, a constructor with the
\* bytecode it was encoded with) and every argument list that matches the
\* parameters, decoding what encode returned gives the arguments' logical
\* values in declaration order.
C1_RoundTrip ==
    (/\ pc = "decoded"
     /\ Matches(item, args)
     /\ ~(item.kind = "tuple" /\ options.packed = "true")
     /\ payload = RoundTripPayload(item, options, encoded))
    => /\ decoded.res \in {"list", "object", "undefined"}
       /\ decoded.vals = [i \in 1..Len(args) |-> Logical(item.inputs[i].type, args[i])]

\* C2: encode succeeds only when the number of arguments equals the number of
\* parameters of the item.
C2_Arity ==
    (Encoded /\ encoded.res # "throw") => Len(args) = Len(getParameter(item))

NoGrammarMatches(s) ==
    /\ ~isTupleRegex(s)
    /\ ~errorSignatureRegex(s)
    /\ ~eventSignatureRegex(s)
    /\ ~functionSignatureRegex(s)
    /\ ~constructorSignatureRegex(s)

KeywordLess(s) ==
    /\ Len(s) >= 3
    /\ s[1] \notin Keywords
    /\ NameEnd(s, 1) >= 1
    /\ s[NameEnd(s, 1) + 1] = LP
    /\ s[Len(s)] = RP

\* C4: for a signature name(params) without a keyword that matches none of the
\* five grammars, from yields the item that from yields for the same
\* signature behind "function ".
C4_KeywordLess ==
    (Classified /\ KeywordLess(raw) /\ NoGrammarMatches(raw))
        => /\ item = from(<<"function", " ">> \o raw)
           /\ item.kind \in {"function", "throw"}

C4_Witness ==
    /\ Classified
    /\ raw = <<"foo", "(", "address", ",", "uint", ")">>
    /\ item.kind = "function"
    /\ item.name = <<"foo">>
    /\ Len(item.inputs) = 2

\* C5: classifying a bare type list writes uint and int out as uint256 and
\* int256 and changes no other type; (uint,address) is a tuple whose
\* component types are uint256 and address, in this order.
C5_Canonical ==
    Classified =>
        /\ raw = <<"(", "uint", ",", "address", ")">>
              => /\ item.kind = "tuple"
                 /\ [i \in 1..Len(item.inputs) |-> item.inputs[i].type]
                        = <<"uint256", "address">>
        /\ item.kind = "tuple"
              => /\ Len(item.inputs) = Len(written)
                 /\ \A i \in 1..Len(written) :
                        item.inputs[i].type = WrittenType(written[i])

C5_Witness ==
    /\ Classified
    /\ raw = <<"(", "uint", ",", "address", ")">>
    /\ item.kind = "tuple"

\* C6: from returns a tuple item only for a bare parenthesised type list: the
\* string starts with "(", ends with ")" and has no text before the opening
\* or after the closing parenthesis.
C6_BareTuple ==
    (Classified /\ item.kind = "tuple")
        => /\ raw[1] = LP
           /\ raw[Len(raw)] = RP
           /\ raw = <<LP>> \o Join(written) \o <<RP>>

\* C7: from fails whenever the string matches none of the five grammars and
\* the function-prefixed string does not parse either; the empty list () is
\* rejected, and no tuple item has zero components.
C7_Rejects ==
    Classified =>
        /\ (/\ NoGrammarMatches(raw)
            /\ \/ ~functionSignatureRegex(<<"function", " ">> \o raw)
               \/ parseFunctionSignature(<<"function", " ">> \o raw).kind = "throw")
              => item.kind = "throw"
        /\ raw = <<LP, RP>> => item.kind = "throw"
        /\ item.kind = "tuple" => Len(item.inputs) > 0

C7_Witness ==
    /\ Classified
    /\ raw = <<LP, RP>>
    /\ item.kind = "throw"

\* C8: getParameter returns, in declaration order, the inputs of a function,
\* event, error or constructor and the components of a tuple, and the empty
\* list exactly when the item declares no parameters.
C8_Parameters ==
    Listed =>
        /\ Len(params) = Len(written)
        /\ \A i \in 1..Len(written) :
              /\ params[i].type = WrittenType(written[i])
              /\ params[i].name = WrittenName(written[i])
        /\ (params = << >>) <=> (written = << >>)

C8_Witness ==
    /\ Listed
    /\ item.kind = "event"
    /\ Len(params) = 2
    /\ params[1].name = <<"b">>
    /\ params[2].name = <<"a">>

Flip(packed) == IF packed = "true" THEN "false" ELSE "true"

\* C9: the packed option changes the result of encode for tuple items only: a
\* tuple is packed exactly when options.packed is true (not when it is false
\* or absent); for the other kinds the result is the same for true and false.
C9_Packed ==
    pc = "encoded" =>
        /\ (item.kind = "tuple" /\ encoded.res = "hex")
              => \A i \in 1..Len(encoded.bytes) :
                    encoded.bytes[i].size =
                        IF options.packed = "true"
                        THEN PackedSize(item.inputs[i].type) ELSE 32
        /\ item.kind # "tuple"
              => encoded = encode(item, args, [options EXCEPT !.packed = Flip(@)])

C9_Witness ==
    /\ pc = "encoded"
    /\ item.kind = "tuple"
    /\ options.packed = "true"
    /\ encoded.res = "hex"
    /\ \E i \in 1..Len(encoded.bytes) : encoded.bytes[i].size = 20

\* C10: encode on an event returns exactly 1 + (number of indexed parameters)
\* topics, the first of them the signature hash of the event.
C10_Topics ==
    (Encoded /\ item.kind = "event" /\ encoded.res = "topics")
        => /\ Len(encoded.topics) = 1 + Cardinality(Indices(item.inputs, TRUE))
           /\ encoded.topics[1] = getSignatureHash(item)

\* The arguments at the positions of the inputs that are not indexed, encoded.
NonIndexedData(abiItem, argList) ==
    [k \in 1..Cardinality(Indices(abiItem.inputs, FALSE)) |->
        Word(ToBigInt(argList[Nth(Indices(abiItem.inputs, FALSE), k)]))]

\* C11: encode on an event returns an object that has, besides topics, a data
\* field with the encoding of exactly the arguments of the parameters that are
\* not indexed.
C11_EventData ==
    (Encoded /\ item.kind = "event" /\ Matches(item, args) /\ encoded.res # "throw")
        => /\ {"topics", "data"} \subseteq ResultFields(encoded)
           /\ encoded.bytes = NonIndexedData(item, args)

\* The bytecode encode works with: options.bytecode, empty when absent.
GivenBytecode(opts) == IF opts.hasBytecode THEN opts.bytecode ELSE << >>

\* C12: encode on a constructor with matching arguments returns the bytecode of
\* the options followed by the encoding of the arguments; absent bytecode counts
\* as the empty byte string and encode still succeeds.
C12_ConstructorBytecode ==
    (Encoded /\ item.kind = "constructor" /\ Matches(item, args))
        => encoded = HexResult(GivenBytecode(options) \o
                         [i \in 1..Len(args) |-> Word(ToBigInt(args[i]))])

C12_Witness ==
    /\ Encoded
    /\ item.kind = "constructor"
    /\ ~options.hasBytecode
    /\ Len(args) = 2
    /\ encoded.res = "hex"
    /\ Len(encoded.bytes) = 2

Decoded == pc = "decoded"

\* The message decode throws for a payload of the wrong shape.
ShapeMessage(kind) ==
    IF kind = "function" THEN "Function decoding requires topics and data object"
    ELSE IF kind = "event" THEN "Event decoding requires topics and data object"
    ELSE IF kind = "error" THEN "Error decoding requires topics and data object"
    ELSE IF kind = "constructor"
    THEN "Constructor decoding requires { bytecode, data } object"
    ELSE "Struct decoding requires topics and data object"

\* C13: decode on a function, error or tuple item with a payload that is not a
\* flat byte string throws the shape error of the kind and returns no values.
C13_FlatOnly ==
    (Decoded /\ item.kind \in {"function", "error", "tuple"} /\ ~payload.flat)
        => decoded = DecodeThrow(ShapeMessage(item.kind))

C13_Witness ==
    /\ Decoded
    /\ item.kind = "function"
    /\ ~payload.flat
    /\ payload.hasData
    /\ Len(payload.bytes) = 3
    /\ decoded.msg = "Function decoding requires topics and data object"

\* C14: decode on an event with a flat byte string throws "Event decoding
\* requires topics and data object" and returns no values.
C14_EventFlat ==
    (Decoded /\ item.kind = "event" /\ payload.flat)
        => decoded = DecodeThrow("Event decoding requires topics and data object")

C14_Witness ==
    /\ Decoded
    /\ item.kind = "event"
    /\ payload.flat
    /\ decoded.res = "throw"

\* C15: decode on an event with an object payload that has no topics field
\* throws "Event decoding requires topics and data object".
C15_EventNoTopics ==
    (Decoded /\ item.kind = "event" /\ ~payload.flat /\ ~payload.hasTopics)
        => decoded = DecodeThrow("Event decoding requires topics and data object")

\* data begins with the bytecode
StartsWith(data, bytecode) ==
    /\ Len(data) >= Len(bytecode)
    /\ SubSeq(data, 1, Len(bytecode)) = bytecode

\* C16: decode on a constructor throws "Constructor decoding requires
\* { bytecode, data } object" for a flat byte string and for an object without
\* bytecode; with bytecode it decodes the bytes of data behind the bytecode, and
\* a missing data field is read as the empty byte string.
C16_ConstructorShape ==
    (Decoded /\ item.kind = "constructor") =>
        /\ (payload.flat \/ ~payload.hasBytecode)
              => decoded = DecodeThrow(ShapeMessage("constructor"))
        /\ (~payload.flat /\ payload.hasBytecode)
              => /\ decoded.msg # ShapeMessage("constructor")
                 /\ (payload.hasData /\ StartsWith(payload.bytes, payload.bytecode))
                       => decoded =
                            IF Len(item.inputs) = 0 THEN ListValue(<< >>)
                            ELSE AbiParametersDecode(item.inputs,
                                     Drop(payload.bytes, Len(payload.bytecode)))
                 /\ ~payload.hasData
                       => decoded = decode(item,
                              [payload EXCEPT !.hasData = TRUE, !.bytes = << >>])

C16_Witness ==
    /\ Decoded
    /\ item.kind = "constructor"
    /\ payload.hasBytecode
    /\ payload.bytecode = Bytecode
    /\ decoded.res = "list"
    /\ Len(decoded.vals) = 2

\* The position of input i among the inputs that are indexed as it is.
Rank(inputs, i) ==
    Cardinality({j \in Indices(inputs, inputs[i].indexed) : j <= i})

\* The payload is a log of the event: the signature hash and one 32-byte topic
\* per indexed input, and as data one word per input that is not indexed.
IsLogOf(abiItem, data) ==
    LET nIdx == Cardinality(Indices(abiItem.inputs, TRUE))
        nNon == Cardinality(Indices(abiItem.inputs, FALSE))
    IN  /\ ~data.flat
        /\ data.hasTopics
        /\ Len(data.topics) = 1 + nIdx
        /\ data.topics[1] = getSignatureHash(abiItem)
        /\ \A k \in 2..(1 + nIdx) : data.topics[k].tag = "num"
        /\ nNon > 0 => /\ data.hasData
                       /\ Len(data.bytes) = nNon
                       /\ \A k \in 1..nNon : data.bytes[k].tag = "num"

\* Every input has a name and no two inputs share one.
DistinctlyNamed(inputs) ==
    /\ Len(inputs) > 0
    /\ \A i \in 1..Len(inputs) : inputs[i].name # << >>
    /\ \A i, j \in 1..Len(inputs) : inputs[i].name = inputs[j].name => i = j

\* The decoded object holds the value under the name.
Holds(object, name, value) ==
    \E k \in 1..Len(object.keys) : object.keys[k] = name /\ object.vals[k] = value

\* C17: decode on an event with a log {topics, data} returns an object keyed by
\* the parameters' names: each indexed parameter is read from the topics behind
\* topics[0], each other parameter from data; for a log built from arguments
\* of an event whose indexed parameters come first, the values are those of
\* the arguments.
C17_EventDecode ==
    (/\ Decoded /\ item.kind = "event"
     /\ DistinctlyNamed(item.inputs) /\ IsLogOf(item, payload))
    => /\ decoded.res = "object"
       /\ Len(decoded.keys) = Len(item.inputs)
       /\ \A i \in 1..Len(item.inputs) :
             Holds(decoded, item.inputs[i].name,
                   DecodeWord(item.inputs[i].type,
                       IF item.inputs[i].indexed
                       THEN payload.topics[1 + Rank(item.inputs, i)]
                       ELSE payload.bytes[Rank(item.inputs, i)]))
       /\ (/\ payload \in LogPayloads(item, args, encoded)
           /\ \A i \in Indices(item.inputs, TRUE) : Rank(item.inputs, i) = i)
             => \A i \in 1..Len(item.inputs) :
                   Holds(decoded, item.inputs[i].name,
                         Logical(item.inputs[i].type, args[i]))

C17_Witness ==
    /\ Decoded
    /\ item.kind = "event"
    /\ Len(item.inputs) = 2
    /\ item.inputs[1].indexed
    /\ ~item.inputs[2].indexed
    /\ IsLogOf(item, payload)
    /\ payload \in LogPayloads(item, args, encoded)
    /\ decoded.res = "object"
    /\ Holds(decoded, <<"b">>, AddressValue(10))
    /\ Holds(decoded, <<"a">>, BigIntValue(7))

Looked == pc = "looked"

\* The identifier is the name of the item.
NamedBy(abiItem, id) == id.form = "name" /\ abiItem.name = id.name

\* The identifier is the 4-byte selector of the item.
SelectedBy(abiItem, id) == id.form = "hex" /\ id.bytes = <<getSelector(abiItem)>>

\* The identifier is the 32-byte hash of the item's signature.
HashedBy(abiItem, id) == id.form = "hex" /\ id.bytes = <<getSignatureHash(abiItem)>>

\* The function items of the ABI the identifier names or selects.
FunctionsFor(json, id) ==
    {i \in 1..Len(json.items) :
        /\ json.items[i].kind = "function"
        /\ NamedBy(json.items[i], id) \/ SelectedBy(json.items[i], id)}

\* The event items the identifier names or gives the topic hash of, and the
\* error items it selects.
OthersFor(json, id) ==
    {i \in 1..Len(json.items) :
        \/ /\ json.items[i].kind = "event"
           /\ NamedBy(json.items[i], id) \/ HashedBy(json.items[i], id)
        \/ /\ json.items[i].kind = "error"
           /\ NamedBy(json.items[i], id) \/ SelectedBy(json.items[i], id)}

\* No event or error item of the ABI answers to the identifier in any way.
NoOtherAnswers(json, id) ==
    \A i \in 1..Len(json.items) :
        json.items[i].kind # "function" => ~MatchesIdentifier(json.items[i], id)

C19_OtherLookup ==
    (Looked /\ OthersFor(abi, identifier) # {} /\ FunctionsFor(abi, identifier) = {})
        => /\ lookup.kind \in {"event", "error"}
           /\ \E i \in OthersFor(abi, identifier) : lookup = abi.items[i]

\* C20: fromAbi never throws: it returns an item or null, and null for an
\* empty array.
C20_NeverThrows ==
    Looked => /\ lookup.kind # "throw"
              /\ abi.items = << >> => lookup = NullItem

\* encode and decode have a branch for the item.
Handled(abiItem) ==
    \/ abiItem.kind \in SignatureKinds
    \/ abiItem.kind = "tuple" /\ Len(abiItem.inputs) > 0

\* C22: encode and decode put no placeholder in the place of a failure: encode
\* never returns null, and decode throws for an item it has no branch for (an
\* unrecognised type, a tuple without components) instead of returning a list.
C22_NoPlaceholder ==
    /\ Encoded => encoded.res # "null"
    /\ (Decoded /\ ~Handled(item)) => decoded.res = "throw"

\* The first item of the ABI that is a function, event, error or constructor.
FirstSignatureItem(json) ==
    json.items[Min({i \in 1..Len(json.items) : json.items[i].kind \in SignatureKinds})]

\* C23: without an identifier fromAbi returns, of a non-empty ABI, the first
\* item in array order that is a function, event, error or constructor, and
\* null when there is none.
C23_FirstItem ==
    (Looked /\ identifier.form = "absent" /\ abi.items # << >>)
        => lookup = IF \E i \in 1..Len(abi.items) : abi.items[i].kind \in SignatureKinds
                    THEN FirstSignatureItem(abi)
                    ELSE NullItem

\* The signature field holds a plain string that from rejects.
RejectedSig ==
    /\ encoder.sig.json = "none"
    /\ encoder.sig.text # << >>
    /\ ClassifiedSig[encoder.sig] = Thrown

\* C21: every call of the Encoder into from, getParameter and encode is
\* wrapped: an error thrown there is shown inline (sigError set, the result
\* cleared) and never leaves the component.
C21_ErrorsInline ==
    /\ ~encoder.crashed
    /\ RejectedSig => encoder.sigError # NoMessage
    /\ encoder.encoded = EmptyResult => encoder.sigError # NoMessage

\* C24: the form has one field per parameter, named by the declared name or
\* arg<index>; the names are pairwise distinct, and the i-th argument handed
\* to encode is the value entered for the i-th parameter.
C24_FieldMapping ==
    ~encoder.crashed =>
        LET fields == encoder.paramFields
            inputs == IF encoder.abiObj = NullItem THEN << >>
                      ELSE getParameter(encoder.abiObj)
        IN  /\ Len(fields) = Len(inputs)
            /\ \A i \in 1..Len(fields) :
                fields[i].name = IF inputs[i].name # << >> THEN inputs[i].name
                                 ELSE <<"arg" \o ToString(i - 1)>>
            /\ \A i, j \in 1..Len(fields) : i # j => fields[i].name # fields[j].name
            /\ encoder.submitted # << >> =>
                \A i \in 1..Len(fields) :
                    encoder.submitted[i] = encoder.entered[fields[i].name]

\* C30: while encoded holds the result of a successful Encode, sigError is
\* null; and every change of the signature field leaves encoded null and
\* selectedIndex 0.
C30_NoStaleError ==
    /\ [](encoder.encoded.res \in {"hex", "topics"} => encoder.sigError = NoMessage)
    /\ [][(encoder'.sig # encoder.sig /\ ~encoder'.crashed)
            => (encoder'.encoded = NoResult /\ encoder'.selectedIndex = 0)]_vars

\* The functions of a pasted ABI array whose selector the hex field starts with.
SelectedFunctions ==
    {i \in 1..Len(decoder.sig.items) :
        /\ decoder.sig.items[i].kind = "function"
        /\ Selector(decoder.hex) = <<getSelector(decoder.sig.items[i])>>}

AllFunctions ==
    {i \in 1..Len(decoder.sig.items) : decoder.sig.items[i].kind = "function"}

\* C25: with a JSON ABI array in the signature field the Decoder uses the
\* function whose selector matches the hex field; without a match the first
\* function of the array; and only an array without any function gives the
\* error "No function found in ABI array".
C25_ArrayFunction ==
    decoder.sig.json = "array" =>
        IF SelectedFunctions # {}
        THEN decoder.abiObj = decoder.sig.items[Min(SelectedFunctions)]
        ELSE IF AllFunctions # {}
        THEN decoder.abiObj = decoder.sig.items[Min(AllFunctions)]
        ELSE /\ decoder.abiObj = NullItem
             /\ decoder.sigError = "No function found in ABI array"

\* C26: the lookup is enabled only while the signature field is empty and the
\* hex field gives a selector of 10 characters; a signature that was entered
\* is the one the Decoder uses.
C26_LookupOnlyWithoutSig ==
    /\ decoder.enabled => (decoder.sig.text = << >> /\ Selector(decoder.hex) # << >>)
    /\ decoder.sig.text # << >> =>
           decoder.abiObj = DecoderAbiObj(decoder.sig, Selector(decoder.hex),
                                          ClassifiedEffectiveSig[decoder.sig]).obj

\* C27: the validation of the operand that a change of the operand base
\* triggers is evaluated against the new base.
C27_ValidatesNewBase ==
    [][calculator'.operandBase # calculator.operandBase
          => calculator'.operandError
                 = ~baseRegex(calculator'.operandBase, calculator'.operand)]_vars

\* C28: the binary, decimal and hex fields are all empty, or each holds a
\* numeral its pattern accepts and the three denote the same integer.
C28_FieldsAgree ==
    \/ /\ calculator.binary = << >>
       /\ calculator.decimal = << >>
       /\ calculator.hex = << >>
    \/ /\ calculator.binary # << >> /\ baseRegex("bin", calculator.binary)
       /\ calculator.decimal # << >> /\ baseRegex("dec", calculator.decimal)
       /\ calculator.hex # << >> /\ baseRegex("hex", calculator.hex)
       /\ parseInt(calculator.binary, 2) = parseInt(calculator.decimal, 10)
       /\ parseInt(calculator.hex, 16) = parseInt(calculator.decimal, 10)

\* Execute is asked to divide or take the remainder by zero, or the value or
\* the operand lies outside the range of the bitwise operators.
ZeroOrOutOfRange ==
    LET dec   == parseInt(OrZero(calculator.decimal), 10)
        opVal == IF calculator.operation = "not" THEN Number(0)
                 ELSE parseInt(OrZero(calculator.operand), Radix(calculator.operandBase))
    IN  /\ ~dec.nan
        /\ ~opVal.nan
        /\ \/ calculator.operation \in {"div", "mod"} /\ opVal.n = 0
           \/ Abs(dec.n) > MAX_SAFE_INTEGER_FOR_BITWISE + 1
           \/ Abs(opVal.n) > MAX_SAFE_INTEGER_FOR_BITWISE + 1

\* C29: Execute with the operand zero for div or mod, or with the value or
\* the operand out of range, leaves the three fields as they are; and no
\* field ever holds NaN or Infinity.
C29_ExecuteGuards ==
    /\ [](/\ calculator.binary # <<"N", "a", "N">>
          /\ calculator.decimal # <<"N", "a", "N">>
          /\ calculator.hex # <<"N", "a", "N">>)
    /\ [][(handleOperate /\ ZeroOrOutOfRange)
            => /\ calculator'.binary = calculator.binary
               /\ calculator'.decimal = calculator.decimal
               /\ calculator'.hex = calculator.hex]_vars

====
